---- MODULE Spec2Model ----
(***************************************************************************)
(* Kiosk media carousel (smart_ads_monitor): the gesture recognizer        *)
(* (src/gesture.py), the navigation state machine and the content          *)
(* lifecycle manager (src/ad_slides.py).                                   *)
(*                                                                         *)
(* Eleven specifications share the variables:                              *)
(*   SpecGesture   GestureControl.run_once wired to ThelabApp.on_gesture,  *)
(*                 with keyboard and auto-scroll navigation;               *)
(*   SpecLoad      load_posts applied to every store of bounded length;    *)
(*   SpecCarousel  ThelabApp.__init__, refresh_posts and navigation over a *)
(*                 post store the upload endpoint writes to, started       *)
(*                 without the voice file;                                 *)
(*   SpecVoice     the slide set and the VoiceManager schedules;           *)
(*   SpecRace      load_posts' read and write-back as two steps, with the  *)
(*                 upload endpoint in between;                             *)
(*   SpecRecognizer GestureControl.run_once alone, with its velocity       *)
(*                 samples and the stream of events it emits;              *)
(*   SpecVideo     navigation over slide lists with video players;         *)
(*   SpecAutoPlay  the main loop in AUTO mode without input, with the      *)
(*                 fairness of a loop that keeps iterating.                *)
(*   SpecLoop      ThelabApp.run from the end of __init__ to its exit,     *)
(*                 over a store that nobody writes to;                     *)
(*   SpecLoopExit  the same, with the fairness of the loop-top check;      *)
(*   SpecDelete    load_posts' read and write-back with the delete         *)
(*                 endpoint in between.                                    *)
(*                                                                         *)
(* Units: hand x-coordinates and drag offsets are in hundredths of the     *)
(* normalized frame width (0.15 is 15); pygame ticks are milliseconds;     *)
(* wall-clock instants and post timestamps are minutes.                    *)
(* Strings that the code strips or compares (text, media_path, caption)    *)
(* are sequences of tokens, the token SP being white space.                *)
(***************************************************************************)
EXTENDS Integers, Sequences, FiniteSets, TLC

VARIABLES
    \* ---- GestureControl (src/gesture.py) ----
    gc,               \* is_pinching, pinch_start_x, current_x, palm_detected,
                      \* last_palm_state, is_moving_fast, has_last (last_position is not None);
                      \* velocity_history in SpecRecognizer
    pending,          \* events run_once has emitted whose callback has not run yet
    \* ---- ThelabApp (src/ad_slides.py) ----
    mode,             \* "auto" | "gesture"
    gesture_state,    \* dragging, drag_offset, slide_changed, locked (exists: hasattr)
    slides,           \* the MediaSlide list
    players,          \* slide.video_player of each slide: opened, playing, finished
    current_index,    \* 0-based, as in the code
    auto_elapsed,     \* pygame.time.get_ticks() - last_auto_scroll, saturated
    refresh_elapsed,  \* pygame.time.get_ticks() - last_refresh, saturated
    last_fingerprint, \* None or the (media, caption, urgent) triples
    voice_manager,    \* VoiceManager: voice_available, voice_states
    voice_elapsed,    \* pygame.time.get_ticks() - last_voice_check, saturated
    loading,          \* load_posts between its read and its write-back, or None
    running,          \* ThelabApp.running, the flag of the main loop
    music_busy,       \* pygame.mixer.music is playing the voice file
    pc,               \* where run() is: "loop" | "exited"
    \* ---- environment ----
    store,            \* posts_history.json: a sequence of posts
    disk,             \* the media files that exist
    now,              \* datetime.now(), minutes
    \* ---- observation of the last step ----
    obs               \* what the last operation was given and what it returned

vars == <<gc, pending, mode, gesture_state, slides, players, current_index, auto_elapsed,
          refresh_elapsed, last_fingerprint, voice_manager, voice_elapsed, loading,
          running, music_busy, pc, store, disk, now, obs>>

recognizerVars == <<gc, pending>>
navVars == <<mode, gesture_state, current_index, auto_elapsed>>
contentVars == <<slides, last_fingerprint, store, disk, now, refresh_elapsed>>
voiceVars == <<voice_manager, voice_elapsed>>
loopVars == <<running, music_busy, pc>>

(***************************************************************************)
(* Bounds of the model.                                                    *)
(***************************************************************************)
MaxSlides == 3
MaxPosts == 3
MaxStore == 2
MaxCount == 2
TickMs == 5000

(***************************************************************************)
(* Program constants.                                                      *)
(***************************************************************************)
SwipeThreshold == 15
auto_scroll_interval == 10000
refresh_interval == 10000
UrgentExpiry == 180
OrdinaryExpiry == 1440
voice_check_interval == 30000
VoiceWindow == 180
JustPosted == 5
Hour == 60

\* Python's None for an optional number: the empty tuple; a value v is <<v>>
None == <<>>
Some(v) == <<v>>
SP == " "

Min(a, b) == IF a < b THEN a ELSE b
Range(s) == {s[i] : i \in DOMAIN s}

(***************************************************************************)
(* GestureControl.run_once                                                 *)
(***************************************************************************)
\* x-coordinates of the hand centre lm[9].x a frame can show
Positions == {0, 15, 31}

Event(t, off) == [type |-> t, offset |-> off]

GcInit ==
    [is_pinching |-> FALSE, pinch_start_x |-> None, current_x |-> None,
     palm_detected |-> FALSE, last_palm_state |-> FALSE,
     is_moving_fast |-> FALSE, has_last |-> FALSE]

\* lines 158-174: the edge-triggered fast-movement events
FastEvents(g, is_fast_now) ==
    IF is_fast_now /\ ~g.is_moving_fast THEN <<Event("fast_movement_start", 0)>>
    ELSE IF ~is_fast_now /\ g.is_moving_fast THEN <<Event("fast_movement_end", 0)>>
    ELSE <<>>

\* lines 183-203, level-triggered: an event for every frame
PalmEventsLevel(g, palm_detected_now) ==
    IF palm_detected_now THEN <<Event("palm_appeared", 0)>>
    ELSE <<Event("palm_disappeared", 0)>>

\* lines 183-203: the edge-triggered palm events
PalmEvents(g, palm_detected_now) ==
    IF palm_detected_now # g.last_palm_state
    THEN IF palm_detected_now THEN <<Event("palm_appeared", 0)>>
         ELSE <<Event("palm_disappeared", 0)>>
    ELSE <<>>

\* line 252: final_offset = current_x - pinch_start_x if current_x else 0
\* (a current_x of 0.0 is falsy)
FinalOffset(g) ==
    IF g.current_x # None /\ g.current_x[1] # 0
    THEN g.current_x[1] - g.pinch_start_x[1]
    ELSE 0

\* lines 216-265, with a pinch_start for every pinching frame
PinchEventsLevel(g, x, pinching_now, throttle_ok) ==
    IF pinching_now THEN <<Event("pinch_start", 0)>>
    ELSE IF g.is_pinching THEN <<Event("pinch_release", 0)>>
    ELSE <<>>

\* lines 216-248, without the pinch_release of lines 251-265
PinchEventsNoRelease(g, x, pinching_now, throttle_ok) ==
    IF pinching_now /\ ~g.is_pinching THEN <<Event("pinch_start", 0)>>
    ELSE IF pinching_now /\ g.is_pinching
    THEN IF throttle_ok THEN <<Event("pinch_drag", x - g.pinch_start_x[1])>> ELSE <<>>
    ELSE <<>>

\* lines 216-265: the pinch events; throttle_ok is
\* current_time - last_callback_time > 0.016
PinchEvents(g, x, pinching_now, throttle_ok) ==
    IF pinching_now /\ ~g.is_pinching THEN <<Event("pinch_start", 0)>>
    ELSE IF pinching_now /\ g.is_pinching
    THEN IF throttle_ok THEN <<Event("pinch_drag", x - g.pinch_start_x[1])>> ELSE <<>>
    ELSE IF ~pinching_now /\ g.is_pinching THEN <<Event("pinch_release", FinalOffset(g))>>
    ELSE <<>>

\* lines 142-265: the events of a frame that shows a hand, in callback order
HandEvents(g, x, pinching_now, palm_detected_now, is_fast_now, throttle_ok) ==
    FastEvents(g, is_fast_now) \o PalmEvents(g, palm_detected_now)
        \o PinchEvents(g, x, pinching_now, throttle_ok)

\* lines 142-265: the recognizer's state after a frame that shows a hand
HandState(g, x, pinching_now, palm_detected_now, is_fast_now) ==
    [is_pinching |-> pinching_now,
     pinch_start_x |-> IF pinching_now
                       THEN (IF g.is_pinching THEN g.pinch_start_x ELSE Some(x))
                       ELSE None,
     current_x |-> IF pinching_now THEN Some(x) ELSE None,
     palm_detected |-> palm_detected_now,
     last_palm_state |-> palm_detected_now,
     is_moving_fast |-> is_fast_now,
     has_last |-> TRUE]

\* lines 267-301: the events of a frame that shows no hand
NoHandEventsNoRelease(g) ==
    (IF g.palm_detected THEN <<Event("hand_lost", 0)>> ELSE <<>>)
        \o (IF g.is_moving_fast THEN <<Event("fast_movement_end", 0)>> ELSE <<>>)

\* lines 267-291, without the close-out of lines 294-301
NoHandEventsNoFastEnd(g) ==
    (IF g.is_pinching THEN <<Event("pinch_release", 0)>> ELSE <<>>)
        \o (IF g.palm_detected THEN <<Event("hand_lost", 0)>> ELSE <<>>)

\* lines 267-301, without the hand_lost of lines 283-291
NoHandEventsNoHandLost(g) ==
    (IF g.is_pinching THEN <<Event("pinch_release", 0)>> ELSE <<>>)
        \o (IF g.is_moving_fast THEN <<Event("fast_movement_end", 0)>> ELSE <<>>)

NoHandEvents(g) ==
    (IF g.is_pinching THEN <<Event("pinch_release", 0)>> ELSE <<>>)
        \o (IF g.palm_detected THEN <<Event("hand_lost", 0)>> ELSE <<>>)
        \o (IF g.is_moving_fast THEN <<Event("fast_movement_end", 0)>> ELSE <<>>)

\* lines 267-305: the recognizer's state after a frame that shows no hand
NoHandStateLatched(g) ==
    [g EXCEPT !.palm_detected = FALSE, !.last_palm_state = FALSE,
              !.is_moving_fast = FALSE, !.has_last = FALSE]

NoHandState(g) ==
    [is_pinching |-> FALSE, pinch_start_x |-> None, current_x |-> None,
     palm_detected |-> FALSE,
     last_palm_state |-> IF g.palm_detected THEN FALSE ELSE g.last_palm_state,
     is_moving_fast |-> FALSE, has_last |-> FALSE]

(***************************************************************************)
(* GestureControl: velocity samples (src/gesture.py lines 31-40, 84-124).  *)
(* Velocities are in hundredths of a frame width per second.               *)
(***************************************************************************)
fast_velocity_threshold == 120
fast_movement_duration == 2
velocity_history_maxlen == 3

\* the values distance / dt can take: at rest, below the threshold, between
\* the threshold and 1.5 times it, above 1.5 times it
Velocities == {0, 100, 150, 200}

\* the recognizer's state with its deque of velocity samples
WithHistory(g, history) ==
    [is_pinching |-> g.is_pinching, pinch_start_x |-> g.pinch_start_x,
     current_x |-> g.current_x, palm_detected |-> g.palm_detected,
     last_palm_state |-> g.last_palm_state, is_moving_fast |-> g.is_moving_fast,
     has_last |-> g.has_last, velocity_history |-> history]

\* lines 84-106: the first frame of a hand has no last position and gives 0.0;
\* v is distance / dt of this frame (0.0 when dt is not positive)
CalculateVelocity(g, v) == IF ~g.has_last THEN 0 ELSE v

\* line 110: append to a deque of maxlen 3
AppendVelocity(history, velocity) ==
    LET s == Append(history, velocity)
    IN  IF Len(s) > velocity_history_maxlen THEN Tail(s) ELSE s

\* lines 113-124, with the instant trigger alone
DetectFastMovementInstantOnly(history, velocity) ==
    2 * velocity > 3 * fast_velocity_threshold

\* lines 113-124, history being the deque after the append of line 110
DetectFastMovement(history, velocity) ==
    IF 2 * velocity > 3 * fast_velocity_threshold THEN TRUE
    ELSE IF Len(history) < fast_movement_duration
    THEN velocity > fast_velocity_threshold
    ELSE Cardinality({i \in (Len(history) - fast_movement_duration + 1)..Len(history) :
                         history[i] > fast_velocity_threshold})
            >= fast_movement_duration

(***************************************************************************)
(* ThelabApp: navigation                                                   *)
(***************************************************************************)
GestureStateInit ==
    [exists |-> FALSE, dragging |-> FALSE, drag_offset |-> 0,
     slide_changed |-> FALSE, locked |-> FALSE]

\* lines 1049-1054 and 1070-1073, 1129-1132
IdleGestureState ==
    [exists |-> TRUE, dragging |-> FALSE, drag_offset |-> 0,
     slide_changed |-> FALSE, locked |-> FALSE]

\* line 1031
NextIndexNoWrap(i, n) == i + 1

NextIndex(i, n) == (i + 1) % n

\* line 1036
PreviousIndexAsNext(i, n) == (i + 1) % n

PreviousIndex(i, n) == (i - 1) % n

\* The navigation state on_gesture reads and writes
AppState == [mode |-> mode, gs |-> gesture_state, idx |-> current_index,
             elapsed |-> auto_elapsed, cmd |-> "none"]

\* lines 1096-1124, with a drag that never locks
PinchDragNoLock(a, offset) ==
    IF a.gs.locked \/ ~a.gs.dragging THEN a
    ELSE IF ~a.gs.slide_changed /\ offset > SwipeThreshold
    THEN [a EXCEPT !.idx = PreviousIndex(a.idx, Len(slides)), !.elapsed = 0,
                   !.cmd = "previous", !.gs.drag_offset = offset]
    ELSE IF ~a.gs.slide_changed /\ offset < -SwipeThreshold
    THEN [a EXCEPT !.idx = NextIndex(a.idx, Len(slides)), !.elapsed = 0,
                   !.cmd = "next", !.gs.drag_offset = offset]
    ELSE [a EXCEPT !.gs.drag_offset = offset]

\* lines 1096-1124, without the reset of drag_offset of lines 1113 and 1121
PinchDragNoSnap(a, offset) ==
    IF a.gs.locked \/ ~a.gs.dragging THEN a
    ELSE IF ~a.gs.slide_changed /\ offset > SwipeThreshold
    THEN [a EXCEPT !.idx = PreviousIndex(a.idx, Len(slides)), !.elapsed = 0,
                   !.cmd = "previous",
                   !.gs.slide_changed = TRUE, !.gs.locked = TRUE, !.gs.drag_offset = offset]
    ELSE IF ~a.gs.slide_changed /\ offset < -SwipeThreshold
    THEN [a EXCEPT !.idx = NextIndex(a.idx, Len(slides)), !.elapsed = 0,
                   !.cmd = "next",
                   !.gs.slide_changed = TRUE, !.gs.locked = TRUE, !.gs.drag_offset = offset]
    ELSE [a EXCEPT !.gs.drag_offset = offset]

\* lines 1096-1124
PinchDrag(a, offset) ==
    IF a.gs.locked \/ ~a.gs.dragging THEN a
    ELSE IF ~a.gs.slide_changed /\ offset > SwipeThreshold
    THEN [a EXCEPT !.idx = PreviousIndex(a.idx, Len(slides)), !.elapsed = 0,
                   !.cmd = "previous",
                   !.gs.slide_changed = TRUE, !.gs.locked = TRUE, !.gs.drag_offset = 0]
    ELSE IF ~a.gs.slide_changed /\ offset < -SwipeThreshold
    THEN [a EXCEPT !.idx = NextIndex(a.idx, Len(slides)), !.elapsed = 0,
                   !.cmd = "next",
                   !.gs.slide_changed = TRUE, !.gs.locked = TRUE, !.gs.drag_offset = 0]
    ELSE [a EXCEPT !.gs.drag_offset = offset]

\* lines 1063-1077
PalmGoneKeepState(a) == [a EXCEPT !.mode = "auto"]

PalmGone(a) == [a EXCEPT !.mode = "auto", !.gs = IdleGestureState, !.elapsed = 0]

\* lines 1044-1143, without the mode test of lines 1080-1081
OnGestureAnyMode(a0, ev) ==
    LET a == [a0 EXCEPT !.gs.exists = TRUE, !.cmd = "none"]
    IN  IF ev.type = "palm_appeared" THEN [a EXCEPT !.mode = "gesture"]
        ELSE IF ev.type \in {"palm_disappeared", "hand_lost"} THEN PalmGone(a)
        ELSE IF ev.type = "pinch_start"
        THEN IF a.gs.locked THEN a ELSE [a EXCEPT !.gs = [IdleGestureState EXCEPT !.dragging = TRUE]]
        ELSE IF ev.type = "pinch_drag" THEN PinchDrag(a, ev.offset)
        ELSE IF ev.type = "pinch_release" THEN [a EXCEPT !.gs = IdleGestureState]
        ELSE a

\* lines 1044-1143; a0 is the state at the call, with gesture_state created
OnGesture(a0, ev) ==
    LET a == [a0 EXCEPT !.gs.exists = TRUE, !.cmd = "none"]
    IN  IF ev.type = "palm_appeared" THEN [a EXCEPT !.mode = "gesture"]
        ELSE IF ev.type \in {"palm_disappeared", "hand_lost"} THEN PalmGone(a)
        ELSE IF a.mode # "gesture" THEN a
        ELSE IF ev.type = "pinch_start"
        THEN IF a.gs.locked THEN a ELSE [a EXCEPT !.gs = [IdleGestureState EXCEPT !.dragging = TRUE]]
        ELSE IF ev.type = "pinch_drag" THEN PinchDrag(a, ev.offset)
        ELSE IF ev.type = "pinch_release" THEN [a EXCEPT !.gs = IdleGestureState]
        ELSE a

(***************************************************************************)
(* Posts and load_posts (src/ad_slides.py lines 191-270)                   *)
(***************************************************************************)
\* A timestamp field: a "YYYYMMDDHHMMSS" string that strptime parses to the
\* instant t, a string it rejects (ok false), or an absent/None/"" field
\* (present false).
Stamp(t) == [present |-> TRUE, ok |-> TRUE, t |-> t]
BadStamp == [present |-> TRUE, ok |-> FALSE, t |-> 0]
NoStamp == [present |-> FALSE, ok |-> FALSE, t |-> 0]

\* JSON null in the "text" field: a reserved value no text equals
Null == <<"null">>

Post(status, text, media_path, timestamp) ==
    [status |-> status, text |-> text, media_path |-> media_path, timestamp |-> timestamp]

\* str.strip(): white space removed at both ends
RECURSIVE LStrip(_)
LStrip(s) == IF s # <<>> /\ Head(s) = SP THEN LStrip(Tail(s)) ELSE s

RECURSIVE RStrip(_)
RStrip(s) ==
    IF s # <<>> /\ s[Len(s)] = SP THEN RStrip(SubSeq(s, 1, Len(s) - 1)) ELSE s

Strip(s) == RStrip(LStrip(s))

\* os.path.isabs
IsAbs(media) == media # <<>> /\ Head(media) = "/"

\* lines 228, 241-242: media if isabs(media) else join(getcwd(), "static", media)
StaticPath(media) == IF IsAbs(media) THEN media ELSE <<"/", "cwd", "static">> \o media

\* str.lower() on the extensions the model uses
Lower(tok) == IF tok = ".MP4" THEN ".mp4" ELSE IF tok = ".PNG" THEN ".png" ELSE tok

\* lines 250-251: a path's last token is its extension (os.path.splitext)
VideoExtensions == {".mp4", ".avi", ".mov", ".mkv", ".webm", ".m4v"}
IsVideoPath(media) == media # <<>> /\ Lower(media[Len(media)]) \in VideoExtensions

\* lines 222-224: expired = now - post_time > timedelta(hours=3 or 24)
IsExpiredAfterADay(status, age) == age > OrdinaryExpiry

IsExpired(status, age) ==
    age > (IF status = "urgent" THEN UrgentExpiry ELSE OrdinaryExpiry)

\* lines 227-234: os.remove of the expired post's media, when it exists
RemoveMediaNever(files, media) == files

RemoveMedia(files, media) ==
    IF media # <<>> THEN files \ {StaticPath(media)} ELSE files

\* lines 253-260
Descriptor(media, caption, urgent, is_video, is_text_only, timestamp) ==
    [media |-> media, caption |-> caption, urgent |-> urgent, is_video |-> is_video,
     is_text_only |-> is_text_only, timestamp |-> timestamp]

\* lines 238-261: a post that is kept; its media is resolved against the disk
KeepPostReversed(acc, post, media, text) ==
    LET exists == media # <<>> /\ StaticPath(media) \in acc.disk
        resolved == IF exists THEN StaticPath(media) ELSE <<>>
    IN  [acc EXCEPT
            !.valid = <<Descriptor(resolved, text, post.status = "urgent",
                                   IsVideoPath(resolved), ~exists, post.timestamp)>> \o @,
            !.remaining = <<post>> \o @]

KeepPost(acc, post, media, text) ==
    LET exists == media # <<>> /\ StaticPath(media) \in acc.disk
        resolved == IF exists THEN StaticPath(media) ELSE <<>>
    IN  [acc EXCEPT
            !.valid = Append(@, Descriptor(resolved, text, post.status = "urgent",
                                           IsVideoPath(resolved), ~exists, post.timestamp)),
            !.remaining = Append(@, post)]

\* lines 203-261: one iteration of the loop over the posts read
\* (line 209: None has no strip(), the AttributeError is not caught)
LoadOne(acc, post, t_now) ==
    LET media == Strip(post.media_path)
        text == Strip(post.text)
    IN  IF post.text = Null THEN [acc EXCEPT !.raised = TRUE]
        ELSE IF media = <<>> /\ text = <<>> THEN acc
        ELSE IF ~post.timestamp.present THEN acc
        ELSE IF ~post.timestamp.ok THEN acc
        ELSE IF IsExpired(post.status, t_now - post.timestamp.t)
        THEN [acc EXCEPT !.disk = RemoveMedia(@, media)]
        ELSE KeepPost(acc, post, media, text)

RECURSIVE LoadFrom(_, _, _, _)
LoadFrom(posts, i, acc, t_now) ==
    IF i > Len(posts) \/ acc.raised THEN acc
    ELSE LoadFrom(posts, i + 1, LoadOne(acc, posts[i], t_now), t_now)

\* lines 191-270: valid is the list returned, remaining the store written
\* back, disk the media files left; raised when an exception left the loop,
\* and then nothing is returned and nothing written
LoadPosts(posts, files, t_now) ==
    LoadFrom(posts, 1,
             [valid |-> <<>>, remaining |-> <<>>, disk |-> files, raised |-> FALSE], t_now)

(***************************************************************************)
(* Slides                                                                  *)
(***************************************************************************)
Slide(media, caption, is_video, is_urgent, timestamp, is_text_only) ==
    [media |-> media, caption |-> caption, is_video |-> is_video,
     is_urgent |-> is_urgent, timestamp |-> timestamp, is_text_only |-> is_text_only]

\* the slide kinds the navigation tells apart: an image and a video
ImageSlide == Slide(<<"/", "a", ".png">>, <<"ad">>, FALSE, FALSE, Stamp(0), FALSE)
VideoSlide == Slide(<<"/", "v", ".mp4">>, <<>>, TRUE, FALSE, Stamp(0), FALSE)

(***************************************************************************)
(* VideoPlayer (lines 492-621) and MediaSlide's use of it (lines 639-704)  *)
(***************************************************************************)
\* a video file that exists and that cv2.VideoCapture cannot open, and one
\* that opens and of which no frame can be read
BrokenVideo == <<"/", "srv", "broken", ".mp4">>
UndecodableVideo == <<"/", "srv", "empty", ".mp4">>

\* line 514: self.cap.isOpened()
Opens(media) == media # BrokenVideo

\* lines 560, 574-575: the first frame can be read
Decodes(media) == media # UndecodableVideo

\* an image or text-only slide: self.video_player = None (line 639)
NoPlayer ==
    [present |-> FALSE, opened |-> FALSE, playing |-> FALSE, finished |-> FALSE,
     released |-> FALSE]

\* lines 641-645, 681-688, 495-526
NewPlayer(slide) ==
    IF slide.is_text_only \/ ~slide.is_video THEN NoPlayer
    ELSE [present |-> TRUE, opened |-> Opens(slide.media),
          playing |-> FALSE, finished |-> FALSE, released |-> FALSE]

NewPlayers(slide_list) == [i \in DOMAIN slide_list |-> NewPlayer(slide_list[i])]

\* lines 690-693, 527-537, with a play that leaves finished as it was
PlayKeepFinished(p) ==
    IF ~p.present \/ ~p.opened THEN p ELSE [p EXCEPT !.playing = TRUE]

\* lines 690-693, 527-537
Play(p) ==
    IF ~p.present \/ ~p.opened THEN p
    ELSE [p EXCEPT !.playing = TRUE, !.finished = FALSE]

\* lines 695-698, 547-553: finished is left as it is
Stop(p) == IF p.present THEN [p EXCEPT !.playing = FALSE] ELSE p

\* lines 555-598; at_end: current_frame >= frame_count, or no frame is read
GetFrame(p, at_end) ==
    IF ~p.playing \/ ~p.opened THEN p
    ELSE IF at_end THEN [p EXCEPT !.finished = TRUE, !.playing = FALSE]
    ELSE p

\* lines 993-1019: stop every video, play the current one and render its
\* first frame
StartCurrentSlide(ps, slide_list, idx) ==
    LET stopped == [i \in DOMAIN ps |-> Stop(ps[i])]
    IN  IF idx + 1 \in DOMAIN slide_list /\ slide_list[idx + 1].is_video
        THEN [stopped EXCEPT
                 ![idx + 1] = GetFrame(Play(@), ~Decodes(slide_list[idx + 1].media))]
        ELSE stopped

\* self.last_fingerprint = None (line 990)
NoFingerprint == [is_none |-> TRUE, triples |-> <<>>]

\* slide lists of every length up to MaxSlides: images, every second one a video
SlideLists ==
    {[i \in 1..n |-> IF i % 2 = 0 THEN VideoSlide ELSE ImageSlide] : n \in 1..MaxSlides}

(***************************************************************************)
(* VoiceManager                                                            *)
(***************************************************************************)
\* self.voice_states = {} (line 398): a function from the timestamps tracked
NoVoiceStates == [t \in {} |-> 0]

\* lines 395-398
VoiceManagerInit(voice_available) ==
    [voice_available |-> voice_available, voice_states |-> NoVoiceStates]

\* scheduled <= post_time + timedelta(hours=3) (line 423)
InWindow(t, scheduled) == scheduled <= t + VoiceWindow

\* lines 415-424, with every play time kept whatever the window
PlayTimesNoWindow(t, t_now) ==
    <<t_now, t + Hour, t + 2 * Hour, t + 4 * Hour>>

\* lines 412-424: the play times of a post stamped t registered at t_now
PlayTimes(t, t_now) ==
    LET age == t_now - t
    IN  IF age <= VoiceWindow
        THEN (IF age < JustPosted THEN <<t_now>> ELSE <<>>)
                \o (IF InWindow(t, t + Hour) THEN <<t + Hour>> ELSE <<>>)
                \o (IF InWindow(t, t + 2 * Hour) THEN <<t + 2 * Hour>> ELSE <<>>)
        ELSE <<>>

\* lines 429-433
VoiceState(play_times) ==
    [play_times |-> play_times, played_count |-> 0, last_check |-> None]

\* lines 403-434, with the +2h play time scheduled before the +1h one
RegisterUrgentAdUnordered(vm, timestamp, t_now) ==
    IF ~vm.voice_available \/ ~timestamp.ok \/ timestamp.t \in DOMAIN vm.voice_states
    THEN vm
    ELSE [vm EXCEPT !.voice_states =
            (timestamp.t :> VoiceState(<<timestamp.t + 2 * Hour, timestamp.t + Hour>>)) @@ @]

\* lines 403-434, without the test of line 404 for a timestamp that is
\* tracked already: the schedule is made anew at every registration
RegisterUrgentAdAnew(vm, timestamp, t_now) ==
    IF ~vm.voice_available THEN vm
    ELSE IF ~timestamp.ok THEN vm
    ELSE LET play_times == PlayTimes(timestamp.t, t_now)
         IN  IF play_times = <<>> THEN vm
             ELSE [vm EXCEPT !.voice_states =
                     (timestamp.t :> VoiceState(play_times))
                         @@ [k \in DOMAIN @ \ {timestamp.t} |-> @[k]]]

\* lines 403-434
RegisterUrgentAd(vm, timestamp, t_now) ==
    IF ~vm.voice_available THEN vm
    ELSE IF timestamp.ok /\ timestamp.t \in DOMAIN vm.voice_states THEN vm
    ELSE IF ~timestamp.ok THEN vm
    ELSE LET play_times == PlayTimes(timestamp.t, t_now)
         IN  IF play_times = <<>> THEN vm
             ELSE [vm EXCEPT !.voice_states = (timestamp.t :> VoiceState(play_times)) @@ @]

\* lines 970-971 and 1178-1179, over the slides_data in order
RECURSIVE RegisterFrom(_, _, _, _)
RegisterFrom(vm, slides_data, i, t_now) ==
    IF i > Len(slides_data) THEN vm
    ELSE LET d == slides_data[i]
             wanted == /\ "urgent" \in DOMAIN d /\ d.urgent
                       /\ "timestamp" \in DOMAIN d /\ d.timestamp.present
         IN  RegisterFrom(IF wanted THEN RegisterUrgentAd(vm, d.timestamp, t_now) ELSE vm,
                          slides_data, i + 1, t_now)

RegisterAll(vm, slides_data, t_now) == RegisterFrom(vm, slides_data, 1, t_now)

\* lines 436-452: the manager afterwards, and the value returned
ShouldPlayVoice(vm, t, t_now) ==
    IF ~vm.voice_available \/ t \notin DOMAIN vm.voice_states
    THEN [vm |-> vm, play |-> FALSE]
    ELSE LET state == vm.voice_states[t]
         IN  IF /\ state.played_count < Len(state.play_times)
                /\ t_now >= state.play_times[state.played_count + 1]
                /\ \/ state.last_check = None
                   \/ state.last_check[1] < state.play_times[state.played_count + 1]
             THEN [vm |-> [vm EXCEPT !.voice_states[t].last_check = Some(t_now)],
                   play |-> TRUE]
             ELSE [vm |-> vm, play |-> FALSE]

\* lines 454-458
MarkPlayed(vm, t) ==
    IF t \in DOMAIN vm.voice_states
    THEN [vm EXCEPT !.voice_states[t].played_count = @ + 1]
    ELSE vm

\* lines 1024-1027 with neither last_check nor played_count kept: the voice
\* plays whenever the next play time has passed
PollSlideNoBookkeeping(acc, slide, t_now) ==
    LET t == slide.timestamp.t
    IN  IF /\ slide.is_urgent /\ slide.timestamp.present
           /\ t \in DOMAIN acc.vm.voice_states
           /\ acc.vm.voice_states[t].played_count < Len(acc.vm.voice_states[t].play_times)
           /\ t_now >= acc.vm.voice_states[t].play_times[acc.vm.voice_states[t].played_count + 1]
        THEN [acc EXCEPT !.fired = Append(@, <<t, acc.vm.voice_states[t].played_count>>)]
        ELSE acc

\* lines 1024-1027: one slide of the poll; fired lists the (timestamp, slot)
\* pairs for which should_play_voice returned True
PollSlide(acc, slide, t_now) ==
    IF slide.is_urgent /\ slide.timestamp.present
    THEN LET t == slide.timestamp.t
             r == ShouldPlayVoice(acc.vm, t, t_now)
         IN  IF r.play
             THEN [vm |-> MarkPlayed(r.vm, t),
                   fired |-> Append(acc.fired, <<t, acc.vm.voice_states[t].played_count>>)]
             ELSE [acc EXCEPT !.vm = r.vm]
    ELSE acc

\* lines 1021-1027
RECURSIVE PollFrom(_, _, _, _)
PollFrom(acc, slide_list, i, t_now) ==
    IF i > Len(slide_list) THEN acc
    ELSE PollFrom(PollSlide(acc, slide_list[i], t_now), slide_list, i + 1, t_now)

CheckAndPlayUrgentVoices(vm, slide_list, t_now) ==
    PollFrom([vm |-> vm, fired |-> <<>>], slide_list, 1, t_now)

\* lines 474-489, purging from 3 hours on instead of past 3 hours
CleanupExpiredAtWindow(vm, t_now) ==
    [vm EXCEPT !.voice_states =
        [t \in {k \in DOMAIN @ : ~(t_now - k >= VoiceWindow)} |-> @[t]]]

\* lines 474-489
CleanupExpired(vm, t_now) ==
    [vm EXCEPT !.voice_states =
        [t \in {k \in DOMAIN @ : ~(t_now - k > VoiceWindow)} |-> @[t]]]

(***************************************************************************)
(* Observation of the last step (history, read only by the properties)     *)
(***************************************************************************)
\* what is remembered of the frames run_once has processed and of the events
\* it has emitted: whether the last processed frame showed a hand (tracked) and
\* an open palm (palm_test); per family of events, whether the last one emitted
\* was the opening one; the same four before the last step; the velocity
\* sample of the last step and whether it declared fast movement
RecInit ==
    [tracked |-> FALSE, palm_test |-> FALSE,
     palm_open |-> FALSE, fast_open |-> FALSE, pinch_open |-> FALSE,
     pre_tracked |-> FALSE, pre_palm_test |-> FALSE,
     pre_palm_open |-> FALSE, pre_fast_open |-> FALSE, pre_pinch_open |-> FALSE,
     pre_moving_fast |-> FALSE, velocity |-> 0, declared |-> FALSE]

ObsInit ==
    [op |-> "none", step |-> "none", emitted |-> <<>>,
     pre_pinching |-> FALSE, pre_gesture |-> FALSE, pre_dragging |-> FALSE,
     ev |-> Event("none", 0), cmd |-> "none", active |-> FALSE, changes |-> 0,
     store_before |-> <<>>, disk_before |-> {}, returned |-> <<>>,
     read |-> <<>>, index_before |-> 0, count_before |-> 0,
     voice_before |-> NoVoiceStates, fired |-> <<>>, played |-> {}, refired |-> FALSE,
     music_before |-> FALSE, deleted |-> {}, rec |-> RecInit]

\* an operation that is neither run_once nor a callback forgets the last step,
\* and keeps the pinch lifecycle, the (timestamp, slot) pairs played so far
\* and the timestamps deleted through the delete endpoint
ObsOther ==
    [ObsInit EXCEPT !.active = obs.active, !.changes = obs.changes,
                    !.played = obs.played, !.refired = obs.refired,
                    !.deleted = obs.deleted]

\* a navigation command of the main loop, and the index it started from
ObsNav(name) ==
    [ObsOther EXCEPT !.op = name, !.index_before = current_index,
                     !.count_before = Len(slides)]

\* run_once: the kind of frame, the events emitted, and the state it started in
ObsStep(kind, evs) ==
    [ObsOther EXCEPT !.op = "run_once", !.step = kind, !.emitted = evs,
                     !.pre_pinching = gc.is_pinching,
                     !.pre_gesture = (mode = "gesture"),
                     !.pre_dragging = gesture_state.dragging]

PalmOpening == {"palm_appeared"}
PalmClosing == {"palm_disappeared", "hand_lost"}
FastOpening == {"fast_movement_start"}
FastClosing == {"fast_movement_end"}
PinchOpening == {"pinch_start"}
PinchClosing == {"pinch_release"}

\* whether, after the events evs, the last event of a family was its opening one
RECURSIVE OpenAfter(_, _, _, _)
OpenAfter(open, evs, opening, closing) ==
    IF evs = <<>> THEN open
    ELSE OpenAfter(IF Head(evs).type \in opening THEN TRUE
                   ELSE IF Head(evs).type \in closing THEN FALSE ELSE open,
                   Tail(evs), opening, closing)

\* run_once seen from the recognizer alone: the kind of frame, the events
\* emitted, whether the frame showed a hand and an open palm, the velocity
\* sample and the verdict of detect_fast_movement
ObsFrame(kind, evs, tracked, palm_test, velocity, declared) ==
    [ObsInit EXCEPT
        !.op = "run_once", !.step = kind, !.emitted = evs,
        !.pre_pinching = gc.is_pinching,
        !.rec = [tracked |-> tracked, palm_test |-> palm_test,
                 palm_open |-> OpenAfter(obs.rec.palm_open, evs, PalmOpening, PalmClosing),
                 fast_open |-> OpenAfter(obs.rec.fast_open, evs, FastOpening, FastClosing),
                 pinch_open |-> OpenAfter(obs.rec.pinch_open, evs, PinchOpening, PinchClosing),
                 pre_tracked |-> obs.rec.tracked, pre_palm_test |-> obs.rec.palm_test,
                 pre_palm_open |-> obs.rec.palm_open,
                 pre_fast_open |-> obs.rec.fast_open,
                 pre_pinch_open |-> obs.rec.pinch_open,
                 pre_moving_fast |-> gc.is_moving_fast,
                 velocity |-> velocity, declared |-> declared]]

(***************************************************************************)
(* Actions of the main loop (ThelabApp.run, lines 1187-1242)               *)
(***************************************************************************)
\* line 128-130: no camera frame, run_once returns at once
RunOnceNoFrame ==
    /\ pending = <<>>
    /\ obs' = ObsStep("noframe", <<>>)
    /\ UNCHANGED <<loopVars, players, voiceVars, loading, recognizerVars, navVars, contentVars>>

\* lines 142-265: a frame with a hand; the callbacks run in Deliver, in order,
\* before any other operation (on_gesture reads nothing of the recognizer)
RunOnceHand ==
    /\ pending = <<>>
    /\ \E x \in Positions, pinching_now \in BOOLEAN, palm_detected_now \in BOOLEAN,
          is_fast_now \in BOOLEAN, throttle_ok \in BOOLEAN :
          \* lines 86-89, 117-118: the first frame of a hand has velocity 0.0
          /\ (~gc.has_last) => ~is_fast_now
          /\ LET evs == HandEvents(gc, x, pinching_now, palm_detected_now,
                                   is_fast_now, throttle_ok)
             IN  /\ pending' = evs
                 /\ gc' = HandState(gc, x, pinching_now, palm_detected_now, is_fast_now)
                 /\ obs' = ObsStep("hand", evs)
    /\ UNCHANGED <<loopVars, players, voiceVars, loading, navVars, contentVars>>

\* lines 267-305: a frame without a hand
RunOnceNoHand ==
    /\ pending = <<>>
    /\ pending' = NoHandEvents(gc)
    /\ gc' = NoHandState(gc)
    /\ obs' = ObsStep("nohand", NoHandEvents(gc))
    /\ UNCHANGED <<loopVars, players, voiceVars, loading, navVars, contentVars>>

\* self.callback(event): ThelabApp.on_gesture runs on ev
Callback(ev) ==
    LET a == OnGesture(AppState, ev)
    IN  /\ mode' = a.mode
        /\ gesture_state' = a.gs
        /\ current_index' = a.idx
        /\ auto_elapsed' = a.elapsed
        /\ players' = IF a.cmd = "none" THEN players
                      ELSE StartCurrentSlide(players, slides, a.idx)

\* what a callback leaves to observe: the event, the slide command it gave,
\* and the slide changes counted since the last honoured pinch_start
ObsCallback(ev) ==
    LET a == OnGesture(AppState, ev)
        honored == ev.type = "pinch_start" /\ mode = "gesture" /\ ~gesture_state.locked
    IN  [obs EXCEPT
            !.op = "on_gesture", !.ev = ev, !.cmd = a.cmd,
            !.active = IF honored THEN TRUE
                       ELSE IF ev.type = "pinch_release" THEN FALSE ELSE @,
            !.changes = IF honored \/ ev.type = "pinch_release" THEN 0
                        ELSE IF obs.active /\ a.cmd # "none" THEN Min(@ + 1, MaxCount)
                        ELSE @]

\* the callback of the next event run_once has emitted
Deliver ==
    /\ pending # <<>>
    /\ Callback(Head(pending))
    /\ obs' = ObsCallback(Head(pending))
    /\ pending' = Tail(pending)
    /\ UNCHANGED <<loopVars, voiceVars, loading, gc, contentVars>>

\* lines 1198-1199, 1034-1037: K_LEFT
KeyLeft ==
    /\ pc = "loop"
    /\ pending = <<>>
    /\ current_index' = PreviousIndex(current_index, Len(slides))
    /\ players' = StartCurrentSlide(players, slides, current_index')
    /\ auto_elapsed' = 0
    /\ obs' = ObsNav("key_left")
    /\ UNCHANGED <<loopVars, voiceVars, loading, recognizerVars, mode, gesture_state, contentVars>>

\* lines 1200-1201, 1029-1032: K_RIGHT
KeyRight ==
    /\ pc = "loop"
    /\ pending = <<>>
    /\ current_index' = NextIndex(current_index, Len(slides))
    /\ players' = StartCurrentSlide(players, slides, current_index')
    /\ auto_elapsed' = 0
    /\ obs' = ObsNav("key_right")
    /\ UNCHANGED <<loopVars, voiceVars, loading, recognizerVars, mode, gesture_state, contentVars>>

\* lines 1217-1219
AutoScrollGuardAnyMode ==
    /\ ~slides[current_index + 1].is_video
    /\ auto_elapsed > auto_scroll_interval

AutoScrollGuard ==
    /\ mode = "auto"
    /\ ~slides[current_index + 1].is_video
    /\ auto_elapsed > auto_scroll_interval

AutoScroll ==
    /\ pc = "loop"
    /\ pending = <<>>
    /\ AutoScrollGuard
    /\ current_index' = NextIndex(current_index, Len(slides))
    /\ players' = StartCurrentSlide(players, slides, current_index')
    /\ auto_elapsed' = 0
    /\ obs' = ObsNav("auto_scroll")
    /\ UNCHANGED <<loopVars, voiceVars, loading, recognizerVars, mode, gesture_state, contentVars>>

\* time passes between two iterations of the loop (line 1190); a difference
\* beyond its interval is kept as interval + TickMs
Saturate(elapsed, interval) == Min(elapsed + TickMs, interval + TickMs)

\* lines 700-704: current_slide.is_video_finished()
CurrentVideoFinished ==
    /\ players # <<>>
    /\ players[current_index + 1].present
    /\ players[current_index + 1].finished

\* the same, in the specification that holds the content fixed; a finished
\* video is left by the check of lines 1213-1215 in the iteration after the
\* draw that ended it, before any time of this scale has passed
TickNav ==
    \* line 1190: another iteration starts only while the flag is set
    /\ running
    /\ pc = "loop"
    /\ pending = <<>>
    /\ ~CurrentVideoFinished
    /\ auto_elapsed' = Saturate(auto_elapsed, auto_scroll_interval)
    /\ obs' = ObsOther
    /\ UNCHANGED <<loopVars, players, voiceVars, loading, recognizerVars, mode, gesture_state, current_index, contentVars>>

Tick ==
    \* line 1190: another iteration starts only while the flag is set
    /\ running
    /\ pc = "loop"
    /\ pending = <<>>
    /\ auto_elapsed' = Saturate(auto_elapsed, auto_scroll_interval)
    /\ refresh_elapsed' = Saturate(refresh_elapsed, refresh_interval)
    /\ obs' = ObsOther
    /\ UNCHANGED <<loopVars, players, voiceVars, loading, recognizerVars, mode, gesture_state, current_index,
                   slides, last_fingerprint, store, disk, now>>

(***************************************************************************)
(* SpecGesture: the recognizer wired to the navigation state machine over  *)
(* a fixed slide list.                                                     *)
(***************************************************************************)
InitGesture ==
    /\ gc = GcInit
    /\ pending = <<>>
    /\ mode = "auto"
    /\ gesture_state = GestureStateInit
    /\ slides \in SlideLists
    /\ players = StartCurrentSlide(NewPlayers(slides), slides, 0)
    /\ current_index = 0
    /\ auto_elapsed = 0
    /\ refresh_elapsed = 0
    /\ last_fingerprint = NoFingerprint
    /\ voice_manager = VoiceManagerInit(FALSE)
    /\ voice_elapsed = 0
    /\ loading = None
    /\ running = TRUE
    /\ music_busy = FALSE
    /\ pc = "loop"
    /\ store = <<>>
    /\ disk = {}
    /\ now = 0
    /\ obs = ObsInit

NextGesture ==
    \/ RunOnceNoFrame
    \/ RunOnceHand
    \/ RunOnceNoHand
    \/ Deliver
    \/ KeyLeft
    \/ KeyRight
    \/ AutoScroll
    \/ TickNav

SpecGesture == InitGesture /\ [][NextGesture]_vars

TypeOKGesture ==
    /\ mode \in {"auto", "gesture"}
    /\ current_index \in 0..(Len(slides) - 1)
    /\ gc.is_pinching \in BOOLEAN
    /\ (gc.pinch_start_x = None) = ~gc.is_pinching
    /\ Len(pending) <= 3

(***************************************************************************)
(* SpecLoad: load_posts applied to every store of at most MaxPosts posts   *)
(* drawn from LoadPool, over every set of media files.                     *)
(***************************************************************************)
RelImage == <<"uploads", "img", ".png">>
PaddedImage == <<SP, "uploads", "img", ".png", SP>>
AbsVideo == <<"/", "srv", "clip", ".MP4">>
MediaFiles == {StaticPath(RelImage), AbsVideo}

\* datetime.now() at the load, and post instants at the expiry boundaries:
\* ages of 24 h + 1 min, 24 h, 3 h + 1 min and 3 h
LoadInstants == {1441}

LoadPool ==
    { Post("urgent", <<"hi">>, <<>>, Stamp(1261)),
      Post("urgent", <<"hi">>, RelImage, Stamp(1260)),
      Post("ordinary", <<>>, RelImage, Stamp(1261)),
      Post("ordinary", <<SP>>, <<SP>>, Stamp(1261)),
      Post("ordinary", <<"hi">>, AbsVideo, Stamp(0)),
      Post("ordinary", <<SP, "hi">>, AbsVideo, Stamp(1)),
      Post("ordinary", <<"hi">>, <<>>, BadStamp),
      Post("ordinary", <<"hi">>, RelImage, NoStamp),
      Post("ordinary", <<"hi">>, PaddedImage, Stamp(1260)),
      Post("other", <<"hi">>, <<>>, Stamp(1260)),
      Post("ordinary", Null, <<>>, Stamp(1261)) }

Stores == UNION {[1..n -> LoadPool] : n \in 0..MaxPosts}

\* what a load was given and what it returned
ObsLoad(name, posts, files, returned) ==
    [ObsOther EXCEPT !.op = name, !.store_before = posts, !.disk_before = files,
                     !.returned = returned]

\* a refresh: what load_posts was given and returned, and the index, the
\* number of slides and the voice schedules it started with
ObsRefresh(name, returned) ==
    [ObsLoad(name, store, disk, returned) EXCEPT
        !.index_before = current_index, !.count_before = Len(slides),
        !.voice_before = voice_manager.voice_states]

\* a poll of the voices: the schedules it started with and the pairs it played
ObsPoll(name, before, fired) ==
    [ObsOther EXCEPT !.op = name, !.voice_before = before.voice_states,
                     !.fired = fired,
                     !.played = @ \cup Range(fired),
                     !.refired = @ \/ Range(fired) \cap obs.played # {}
                                   \/ Len(fired) # Cardinality(Range(fired))]

\* posts = json.load(f) ... json.dump(remaining_posts, f); return valid_posts
LoadStep ==
    /\ LET r == LoadPosts(store, disk, now)
       IN  /\ store' = IF r.raised THEN store ELSE r.remaining
           /\ disk' = r.disk
           /\ obs' = IF r.raised THEN ObsLoad("load_raised", store, disk, <<>>)
                     ELSE ObsLoad("load", store, disk, r.valid)
    /\ UNCHANGED <<loopVars, players, voiceVars, loading, recognizerVars, navVars, slides, last_fingerprint, now, refresh_elapsed>>

InitLoad ==
    /\ gc = GcInit
    /\ pending = <<>>
    /\ mode = "auto"
    /\ gesture_state = GestureStateInit
    /\ slides = <<>>
    /\ players = <<>>
    /\ current_index = 0
    /\ auto_elapsed = 0
    /\ refresh_elapsed = 0
    /\ last_fingerprint = NoFingerprint
    /\ voice_manager = VoiceManagerInit(FALSE)
    /\ voice_elapsed = 0
    /\ loading = None
    /\ running = TRUE
    /\ music_busy = FALSE
    /\ pc = "loop"
    /\ store \in Stores
    /\ disk \in SUBSET MediaFiles
    /\ now \in LoadInstants
    /\ obs = ObsInit

NextLoad == LoadStep

SpecLoad == InitLoad /\ [][NextLoad]_vars

(***************************************************************************)
(* ThelabApp.__init__ and refresh_posts: the slide set                     *)
(***************************************************************************)
\* lines 950-952: the placeholder dict of __init__ (no "urgent", no "timestamp")
StartupPlaceholder ==
    [media |-> <<>>, caption |-> <<"Your ads here">>, is_video |-> FALSE,
     is_text_only |-> TRUE]

\* lines 1159-1161: the placeholder dict of refresh_posts; its caption is
\* "Your ads here " with a trailing blank
RefreshPlaceholder ==
    [media |-> <<>>, caption |-> <<"Your ads here", SP>>, is_video |-> FALSE,
     is_text_only |-> TRUE]

\* p.get("urgent")
IsUrgentPost(p) == p.urgent

\* lines 948-952 and 1158-1161
SelectSlidesAll(posts, placeholder) ==
    IF posts # <<>> THEN posts ELSE <<placeholder>>

SelectSlides(posts, placeholder) ==
    LET urgent == SelectSeq(posts, IsUrgentPost)
    IN  IF urgent # <<>> THEN urgent
        ELSE IF posts # <<>> THEN posts
        ELSE <<placeholder>>

\* lines 957-968 and 1165-1176: MediaSlide(...) for one slide_data
BuildSlide(d) ==
    Slide(d.media, d.caption, d.is_video,
          IF "urgent" \in DOMAIN d THEN d.urgent ELSE FALSE,
          IF "timestamp" \in DOMAIN d THEN d.timestamp ELSE NoStamp,
          d.is_text_only)

BuildSlides(slides_data) == [i \in DOMAIN slides_data |-> BuildSlide(slides_data[i])]

\* line 1148, with the urgent flag left out of the triples
FingerprintNoUrgent(posts) ==
    [is_none |-> FALSE,
     triples |-> [i \in DOMAIN posts |-> <<posts[i].media, posts[i].caption, FALSE>>]]

\* line 1148
Fingerprint(posts) ==
    [is_none |-> FALSE,
     triples |-> [i \in DOMAIN posts |->
                    <<posts[i].media, posts[i].caption, posts[i].urgent>>]]

(***************************************************************************)
(* The upload endpoint (src/webpage.py, index) and the wall clock          *)
(***************************************************************************)
\* lines 71, 76: media_path of an upload made at instant t
UploadedImage(t) == <<"uploads", t, "image", ".png">>
UploadedVideo(t) == <<"uploads", t, "video", ".mp4">>

\* lines 47-85: the posts the form can produce at instant t (a text-only
\* post of either status, an ordinary image without text, an urgent video)
UploadPosts(t) ==
    {Post("urgent", <<"hi">>, <<>>, Stamp(t)),
     Post("ordinary", <<"hi">>, <<>>, Stamp(t)),
     Post("ordinary", <<>>, UploadedImage(t), Stamp(t)),
     Post("urgent", <<"hi">>, UploadedVideo(t), Stamp(t))}

\* the files the posts of a store refer to
FilesOf(posts) ==
    {StaticPath(posts[i].media_path) : i \in {j \in DOMAIN posts : posts[j].media_path # <<>>}}

\* the instants the wall clock passes through: an upload, and one minute past
\* the 3 hours and the 24 hours of a post uploaded at 0
CarouselInstants == {0, 181, 1441}

\* lines 72, 77, 88-89: the media file is saved and the post appended
Upload ==
    /\ pending = <<>>
    /\ Len(store) < MaxStore
    /\ \E p \in UploadPosts(now) :
          /\ store' = Append(store, p)
          /\ disk' = disk \cup FilesOf(<<p>>)
    /\ obs' = ObsOther
    /\ UNCHANGED <<loopVars, players, voiceVars, loading, recognizerVars, navVars, slides, last_fingerprint, now, refresh_elapsed>>

\* datetime.now() moves on
AdvanceClock ==
    /\ pending = <<>>
    /\ \E t \in CarouselInstants : t > now /\ now' = t
    /\ obs' = ObsOther
    /\ UNCHANGED <<loopVars, players, voiceVars, loading, recognizerVars, navVars, slides, last_fingerprint, store, disk,
                   refresh_elapsed>>

\* lines 1221-1223 with 1145-1151: the fingerprint is unchanged, only
\* load_posts has written the store back (an exception out of load_posts
\* leaves refresh_posts and run: no refresh step)
RefreshUnchanged ==
    /\ pc = "loop"
    /\ pending = <<>>
    /\ refresh_elapsed > refresh_interval
    /\ LET r == LoadPosts(store, disk, now)
       IN  /\ ~r.raised
           /\ last_fingerprint = Fingerprint(r.valid)
           /\ store' = r.remaining
           /\ disk' = r.disk
           /\ obs' = ObsRefresh("refresh_noop", r.valid)
    /\ refresh_elapsed' = 0
    /\ UNCHANGED <<loopVars, players, voiceVars, loading, recognizerVars, navVars, slides, last_fingerprint, now>>

\* lines 1221-1223 with 1145-1185: the slide set is rebuilt
RefreshRebuild ==
    /\ pc = "loop"
    /\ pending = <<>>
    /\ refresh_elapsed > refresh_interval
    /\ LET r == LoadPosts(store, disk, now)
       IN  /\ ~r.raised
           /\ last_fingerprint # Fingerprint(r.valid)
           /\ last_fingerprint' = Fingerprint(r.valid)
           /\ slides' = BuildSlides(SelectSlides(r.valid, RefreshPlaceholder))
           /\ players' = StartCurrentSlide(NewPlayers(slides'), slides', 0)
           /\ voice_manager' = RegisterAll(voice_manager,
                                            SelectSlides(r.valid, RefreshPlaceholder), now)
           /\ store' = r.remaining
           /\ disk' = r.disk
           /\ obs' = ObsRefresh("rebuild", r.valid)
    /\ current_index' = 0
    /\ auto_elapsed' = 0
    /\ refresh_elapsed' = 0
    /\ UNCHANGED <<loopVars, voice_elapsed, loading, recognizerVars, mode, gesture_state, now>>

\* on_gesture called with an event of any kind (every stream the recognizer
\* can emit is a sequence of these)
CarouselEvents ==
    {Event(t, 0) : t \in {"palm_appeared", "palm_disappeared", "hand_lost",
                          "pinch_start", "pinch_release"}}
        \cup {Event("pinch_drag", off) : off \in {-16, 16}}

GestureCallback ==
    /\ pc = "loop"
    /\ pending = <<>>
    /\ \E ev \in CarouselEvents : Callback(ev)
    /\ obs' = ObsOther
    /\ UNCHANGED <<loopVars, voiceVars, loading, recognizerVars, contentVars>>

(***************************************************************************)
(* SpecCarousel: the application from the end of __init__ on, with the     *)
(* upload endpoint and the clock.                                          *)
(***************************************************************************)
InitialStores == UNION {[1..n -> UploadPosts(0)] : n \in 0..MaxStore}

\* lines 938-991: ThelabApp.__init__ at instant t0 on the store it finds,
\* with or without the voice file
Startup(posts, t0, voice_available) ==
    LET r == LoadPosts(posts, FilesOf(posts), t0)
        slides_data == SelectSlides(r.valid, StartupPlaceholder)
        registered == RegisterAll(VoiceManagerInit(voice_available), slides_data, t0)
        polled == CheckAndPlayUrgentVoices(registered, BuildSlides(slides_data), t0)
    IN  /\ gc = GcInit
        /\ pending = <<>>
        /\ mode = "auto"
        /\ gesture_state = GestureStateInit
        /\ current_index = 0
        /\ auto_elapsed = 0
        /\ refresh_elapsed = 0
        /\ voice_elapsed = 0
        /\ last_fingerprint = NoFingerprint
        /\ loading = None
        /\ running = TRUE
        /\ music_busy = (polled.fired # <<>>)
        /\ pc = "loop"
        /\ now = t0
        /\ store = r.remaining
        /\ disk = r.disk
        /\ slides = BuildSlides(slides_data)
        /\ players = StartCurrentSlide(NewPlayers(BuildSlides(slides_data)),
                                       BuildSlides(slides_data), 0)
        /\ voice_manager = polled.vm
        /\ obs = [ObsInit EXCEPT !.op = "startup", !.store_before = posts,
                                 !.disk_before = FilesOf(posts),
                                 !.returned = r.valid,
                                 !.voice_before = NoVoiceStates,
                                 !.fired = polled.fired,
                                 !.played = Range(polled.fired)]

\* the application started without the voice file: register_urgent_ad and
\* should_play_voice return at once
InitCarousel == \E posts \in InitialStores : Startup(posts, 0, FALSE)

NextCarousel ==
    \/ Upload
    \/ AdvanceClock
    \/ RefreshUnchanged
    \/ RefreshRebuild
    \/ GestureCallback
    \/ KeyLeft
    \/ KeyRight
    \/ AutoScroll
    \/ Tick

SpecCarousel == InitCarousel /\ [][NextCarousel]_vars

(***************************************************************************)
(* SpecVoice: the slide set and the voice schedules, with the clock at the *)
(* instants the schedules tell apart.  The navigation is left alone: the   *)
(* voice manager reads the slide list, never the index or the mode.        *)
(***************************************************************************)
\* the instants of SpecVoice: a post stamped 0 is less than 5 minutes old at
\* 0 and 4, its play times are 60 and 120, and it is past 3 hours at 181
VoiceInstants == {0, 4, 5, 60, 120, 180, 181}

\* text posts of either status uploaded at instant t
TextPosts(t) ==
    {Post("urgent", <<"hi">>, <<>>, Stamp(t)),
     Post("ordinary", <<"hi">>, <<>>, Stamp(t))}

VoiceStores == UNION {[1..n -> TextPosts(0)] : n \in 0..MaxStore}

InitVoice ==
    \E posts \in VoiceStores, t0 \in VoiceInstants, voice_available \in BOOLEAN :
        Startup(posts, t0, voice_available)

\* lines 47-89 of src/webpage.py: a text post is appended
UploadText ==
    /\ pending = <<>>
    /\ Len(store) < MaxStore
    /\ \E p \in TextPosts(now) : store' = Append(store, p)
    /\ obs' = ObsOther
    /\ UNCHANGED <<loopVars, players, voiceVars, loading, recognizerVars, navVars, slides, last_fingerprint,
                   disk, now, refresh_elapsed>>

\* lines 1208-1211: the periodic voice check
VoiceCheck ==
    /\ pc = "loop"
    /\ pending = <<>>
    /\ voice_elapsed > voice_check_interval
    /\ LET polled == CheckAndPlayUrgentVoices(voice_manager, slides, now)
       IN  /\ voice_manager' = CleanupExpired(polled.vm, now)
           /\ obs' = ObsPoll("voice_check", voice_manager, polled.fired)
           \* lines 460-468: play_voice starts the voice file on the music channel
           /\ music_busy' = (music_busy \/ polled.fired # <<>>)
    /\ voice_elapsed' = 0
    /\ UNCHANGED <<running, pc, players, loading, recognizerVars, navVars, contentVars>>

\* half a minute goes by on pygame's clock within the same wall-clock minute:
\* the refresh and the voice check are both due
HalfMinute ==
    \* line 1190: another iteration starts only while the flag is set
    /\ running
    /\ pc = "loop"
    /\ pending = <<>>
    /\ voice_elapsed <= voice_check_interval \/ refresh_elapsed <= refresh_interval
    /\ voice_elapsed' = voice_check_interval + TickMs
    /\ refresh_elapsed' = refresh_interval + TickMs
    /\ obs' = ObsOther
    /\ UNCHANGED <<loopVars, players, voice_manager, loading, recognizerVars, navVars, slides,
                   last_fingerprint, store, disk, now>>

\* the wall clock reaches the next instant.  The instants are a minute or
\* more apart and the loop runs 60 times a second, so a refresh or a voice
\* check that is due runs first, and both are due again afterwards.
AdvanceClockVoice ==
    \* line 1190: another iteration starts only while the flag is set
    /\ running
    /\ pc = "loop"
    /\ pending = <<>>
    /\ voice_elapsed <= voice_check_interval
    /\ refresh_elapsed <= refresh_interval
    /\ \E t \in VoiceInstants :
          /\ t > now
          /\ \A u \in VoiceInstants : ~(now < u /\ u < t)
          /\ now' = t
    /\ voice_elapsed' = voice_check_interval + TickMs
    /\ refresh_elapsed' = refresh_interval + TickMs
    /\ obs' = ObsOther
    /\ UNCHANGED <<loopVars, players, voice_manager, loading, recognizerVars, navVars, slides,
                   last_fingerprint, store, disk>>

NextVoice ==
    \/ UploadText
    \/ AdvanceClockVoice
    \/ HalfMinute
    \/ VoiceCheck
    \/ RefreshUnchanged
    \/ RefreshRebuild

SpecVoice == InitVoice /\ [][NextVoice]_vars

(***************************************************************************)
(* SpecRace: load_posts in its two file accesses, the read (lines 194-195) *)
(* and the write-back (lines 264-265), with the upload endpoint running on *)
(* the Flask thread in between (src/main.py, lines 58-66).  The other      *)
(* specifications take a load as one step.                                 *)
(***************************************************************************)
\* lines 264-265 if the posts appended since the read were carried over
WrittenStoreMerged(remaining_posts, read, current) ==
    remaining_posts \o SubSeq(current, Len(read) + 1, Len(current))

\* lines 264-265: json.dump(remaining_posts, f) over whatever the file holds
WrittenStore(remaining_posts, read, current) == remaining_posts

\* lines 194-261: the file is read and closed, then the loop runs
LoadRead ==
    /\ pending = <<>>
    /\ loading = None
    /\ LET r == LoadPosts(store, disk, now)
       IN  /\ ~r.raised
           /\ loading' = Some([read |-> store, valid |-> r.valid,
                               remaining |-> r.remaining])
           /\ disk' = r.disk
    /\ obs' = ObsOther
    /\ UNCHANGED <<loopVars, players, voiceVars, recognizerVars, navVars, slides, last_fingerprint, store,
                   now, refresh_elapsed>>

\* lines 263-270: the file is opened again and overwritten
LoadWriteBack ==
    /\ pending = <<>>
    /\ loading # None
    /\ store' = WrittenStore(loading[1].remaining, loading[1].read, store)
    /\ loading' = None
    /\ obs' = [ObsLoad("write_back", store, disk, loading[1].valid) EXCEPT
                  !.read = loading[1].read]
    /\ UNCHANGED <<loopVars, players, voiceVars, recognizerVars, navVars, slides, last_fingerprint, disk,
                   now, refresh_elapsed>>

InitRace ==
    /\ \E posts \in VoiceStores : Startup(posts, 0, FALSE)

NextRace ==
    \/ LoadRead
    \/ LoadWriteBack
    \/ Upload
    \/ AdvanceClock

SpecRace == InitRace /\ [][NextRace]_vars

(***************************************************************************)
(* SpecRecognizer: GestureControl alone, with its velocity samples.  The   *)
(* callback reads and writes nothing of the recognizer, so the events of a *)
(* frame are only recorded, in callback order.                             *)
(***************************************************************************)
\* lines 128-130: no camera frame, run_once returns at once
FrameNone ==
    /\ obs' = ObsFrame("noframe", <<>>, obs.rec.tracked, obs.rec.palm_test, 0, FALSE)
    /\ UNCHANGED <<loopVars, players, voiceVars, loading, recognizerVars, navVars, contentVars>>

\* lines 142-265: a frame with a hand
FrameHand ==
    /\ \E x \in Positions, pinching_now \in BOOLEAN, palm_detected_now \in BOOLEAN,
          v \in Velocities, throttle_ok \in BOOLEAN :
          LET velocity == CalculateVelocity(gc, v)
              history == AppendVelocity(gc.velocity_history, velocity)
              is_fast_now == DetectFastMovement(history, velocity)
              evs == HandEvents(gc, x, pinching_now, palm_detected_now,
                                is_fast_now, throttle_ok)
          IN  /\ gc' = WithHistory(HandState(gc, x, pinching_now, palm_detected_now,
                                             is_fast_now), history)
              /\ obs' = ObsFrame("hand", evs, TRUE, palm_detected_now,
                                 velocity, is_fast_now)
    /\ UNCHANGED <<loopVars, players, voiceVars, loading, pending, navVars, contentVars>>

\* lines 267-305: a frame without a hand; line 305 clears the samples
FrameNoHand ==
    /\ gc' = WithHistory(NoHandState(gc), <<>>)
    /\ obs' = ObsFrame("nohand", NoHandEvents(gc), FALSE, FALSE, 0, FALSE)
    /\ UNCHANGED <<loopVars, players, voiceVars, loading, pending, navVars, contentVars>>

InitRecognizer ==
    /\ gc = WithHistory(GcInit, <<>>)
    /\ pending = <<>>
    /\ mode = "auto"
    /\ gesture_state = GestureStateInit
    /\ slides = <<ImageSlide>>
    /\ players = StartCurrentSlide(NewPlayers(slides), slides, 0)
    /\ current_index = 0
    /\ auto_elapsed = 0
    /\ refresh_elapsed = 0
    /\ last_fingerprint = NoFingerprint
    /\ voice_manager = VoiceManagerInit(FALSE)
    /\ voice_elapsed = 0
    /\ loading = None
    /\ running = TRUE
    /\ music_busy = FALSE
    /\ pc = "loop"
    /\ store = <<>>
    /\ disk = {}
    /\ now = 0
    /\ obs = ObsInit

NextRecognizer ==
    \/ FrameNone
    \/ FrameHand
    \/ FrameNoHand

SpecRecognizer == InitRecognizer /\ [][NextRecognizer]_vars

(***************************************************************************)
(* SpecVideo: navigation over slide lists with video players.              *)
(* SpecAutoPlay: the same loop left alone in AUTO mode, without keys or    *)
(* gestures, under the fairness of a loop that keeps iterating.            *)
(***************************************************************************)
BrokenVideoSlide == Slide(BrokenVideo, <<"clip">>, TRUE, FALSE, Stamp(0), FALSE)
UndecodableVideoSlide == Slide(UndecodableVideo, <<"clip">>, TRUE, FALSE, Stamp(0), FALSE)

VideoSlideKinds == {ImageSlide, VideoSlide, BrokenVideoSlide, UndecodableVideoSlide}
VideoSlideLists == UNION {[1..n -> VideoSlideKinds] : n \in 1..MaxSlides}

\* lines 1225-1233, 726-727: the current slide is drawn; a playing video reads
\* its next frame, or finds that it is at its end
DrawFrame(at_end) ==
    /\ pc = "loop"
    /\ pending = <<>>
    /\ players[current_index + 1].playing
    /\ players' = [players EXCEPT ![current_index + 1] = GetFrame(@, at_end)]
    /\ obs' = ObsNav("draw")
    /\ UNCHANGED <<loopVars, voiceVars, loading, recognizerVars, navVars, contentVars>>

\* lines 1213-1215 with an advance that also returns the drag state to idle
VideoFinishedResetsDrag ==
    /\ pc = "loop"
    /\ pending = <<>>
    /\ CurrentVideoFinished
    /\ current_index' = NextIndex(current_index, Len(slides))
    /\ players' = StartCurrentSlide(players, slides, current_index')
    /\ auto_elapsed' = 0
    /\ gesture_state' = IdleGestureState
    /\ obs' = ObsNav("video_finished")
    /\ UNCHANGED <<loopVars, voiceVars, loading, recognizerVars, mode, contentVars>>

\* lines 1213-1215: the current video has finished
VideoFinished ==
    /\ pc = "loop"
    /\ pending = <<>>
    /\ CurrentVideoFinished
    /\ current_index' = NextIndex(current_index, Len(slides))
    /\ players' = StartCurrentSlide(players, slides, current_index')
    /\ auto_elapsed' = 0
    /\ obs' = ObsNav("video_finished")
    /\ UNCHANGED <<loopVars, voiceVars, loading, recognizerVars, mode, gesture_state, contentVars>>

InitVideo ==
    /\ gc = GcInit
    /\ pending = <<>>
    /\ mode = "auto"
    /\ gesture_state = GestureStateInit
    /\ slides \in VideoSlideLists
    /\ players = StartCurrentSlide(NewPlayers(slides), slides, 0)
    /\ current_index = 0
    /\ auto_elapsed = 0
    /\ refresh_elapsed = 0
    /\ last_fingerprint = NoFingerprint
    /\ voice_manager = VoiceManagerInit(FALSE)
    /\ voice_elapsed = 0
    /\ loading = None
    /\ running = TRUE
    /\ music_busy = FALSE
    /\ pc = "loop"
    /\ store = <<>>
    /\ disk = {}
    /\ now = 0
    /\ obs = ObsInit

NextVideo ==
    \/ GestureCallback
    \/ KeyLeft
    \/ KeyRight
    \/ AutoScroll
    \/ TickNav
    \/ \E at_end \in BOOLEAN : DrawFrame(at_end)
    \/ VideoFinished

SpecVideo == InitVideo /\ [][NextVideo]_vars

NextAutoPlay ==
    \/ AutoScroll
    \/ TickNav
    \/ \E at_end \in BOOLEAN : DrawFrame(at_end)
    \/ VideoFinished

\* the loop keeps iterating: time passes, the timer and the finished flag are
\* consulted in every iteration, and a video that plays has finitely many
\* frames, so its end is reached
SpecAutoPlay ==
    /\ InitVideo
    /\ [][NextAutoPlay]_vars
    /\ WF_vars(TickNav)
    /\ WF_vars(AutoScroll)
    /\ WF_vars(VideoFinished)
    /\ WF_vars(DrawFrame(TRUE))

(***************************************************************************)
(* SpecLoop: ThelabApp.run from the end of __init__ to the end of run,     *)
(* over a store that nobody writes to and a clock that stays within the    *)
(* minute of the startup: callbacks, keys, the timers, the players, the    *)
(* refresh, the voice check, the quit event and the exit of the loop.      *)
(***************************************************************************)
\* lines 191-197 within 1145-1185: open() or json.load raises (the file is
\* being rewritten by the Flask thread, or is not JSON), load_posts returns
\* [] without writing, and refresh_posts goes on with that list
RefreshUnreadable ==
    /\ pc = "loop"
    /\ pending = <<>>
    /\ refresh_elapsed > refresh_interval
    /\ IF last_fingerprint = Fingerprint(<<>>)
       THEN UNCHANGED <<slides, players, voice_manager, current_index, auto_elapsed,
                        last_fingerprint>>
       ELSE /\ last_fingerprint' = Fingerprint(<<>>)
            /\ slides' = BuildSlides(SelectSlides(<<>>, RefreshPlaceholder))
            /\ players' = StartCurrentSlide(NewPlayers(slides'), slides', 0)
            /\ voice_manager' = RegisterAll(voice_manager,
                                             SelectSlides(<<>>, RefreshPlaceholder), now)
            /\ current_index' = 0
            /\ auto_elapsed' = 0
    /\ refresh_elapsed' = 0
    /\ obs' = ObsRefresh("refresh_unreadable", <<>>)
    /\ UNCHANGED <<loopVars, voice_elapsed, loading, recognizerVars, mode, gesture_state,
                   store, disk, now>>

\* lines 1192-1197: pygame.QUIT or K_ESCAPE
Quit ==
    /\ pc = "loop"
    /\ pending = <<>>
    /\ running' = FALSE
    /\ obs' = [ObsOther EXCEPT !.op = "quit"]
    /\ UNCHANGED <<music_busy, pc, players, voiceVars, loading, recognizerVars, navVars,
                   contentVars>>

\* the voice file has been played to its end
MusicEnds ==
    /\ pc = "loop"
    /\ pending = <<>>
    /\ music_busy
    /\ music_busy' = FALSE
    /\ obs' = ObsOther
    /\ UNCHANGED <<running, pc, players, voiceVars, loading, recognizerVars, navVars,
                   contentVars>>

\* lines 824-828 with 547-553 and 615-621: the player of one slide is stopped
\* and its capture released
CleanupCurrentOnly(ps, i, idx) ==
    IF ps[i].present /\ i = idx + 1 THEN [Stop(ps[i]) EXCEPT !.released = TRUE] ELSE ps[i]

Cleanup(ps, i, idx) ==
    IF ps[i].present THEN [Stop(ps[i]) EXCEPT !.released = TRUE] ELSE ps[i]

\* lines 1190 and 1244-1247: the loop-top check finds the flag cleared
RunExit ==
    /\ pc = "loop"
    /\ pending = <<>>
    /\ ~running
    /\ music_busy' = FALSE
    /\ players' = [i \in DOMAIN players |-> Cleanup(players, i, current_index)]
    /\ pc' = "exited"
    /\ obs' = [ObsOther EXCEPT !.op = "exit", !.music_before = music_busy]
    /\ UNCHANGED <<running, voiceVars, loading, recognizerVars, navVars, contentVars>>

\* the stores the application is started on: none, two ordinary posts, two
\* urgent posts of which one is a video, and an urgent video after an
\* ordinary image (uploads of instant 0, src/webpage.py lines 47-85)
LoopStores ==
    {<<>>,
     <<Post("ordinary", <<>>, UploadedImage(0), Stamp(0)),
       Post("ordinary", <<"hi">>, <<>>, Stamp(0))>>,
     <<Post("urgent", <<"hi">>, UploadedVideo(0), Stamp(0)),
       Post("urgent", <<"hi">>, <<>>, Stamp(0))>>,
     <<Post("ordinary", <<>>, UploadedImage(0), Stamp(0)),
       Post("urgent", <<"hi">>, UploadedVideo(0), Stamp(0))>>}

InitLoop ==
    \E posts \in LoopStores, voice_available \in BOOLEAN : Startup(posts, 0, voice_available)

NextLoop ==
    \/ GestureCallback
    \/ KeyLeft
    \/ KeyRight
    \/ AutoScroll
    \/ VideoFinished
    \/ \E at_end \in BOOLEAN : DrawFrame(at_end)
    \/ Tick
    \/ HalfMinute
    \/ VoiceCheck
    \/ MusicEnds
    \/ RefreshUnchanged
    \/ RefreshRebuild
    \/ RefreshUnreadable
    \/ Quit
    \/ RunExit

SpecLoop == InitLoop /\ [][NextLoop]_vars

\* every operation of the loop body returns, so the test of line 1190 is
\* reached again after the iteration that cleared the flag
SpecLoopExit == SpecLoop /\ WF_vars(RunExit)

(***************************************************************************)
(* SpecDelete: load_posts in its two file accesses with the delete         *)
(* endpoint running on the Flask thread (src/webpage.py, lines 115-154).   *)
(***************************************************************************)
\* the instants of the uploads the store holds when the application starts
DeleteInstants == {0, 181}

\* the stores of posts uploaded at those instants, oldest first
DeleteStores ==
    {posts \in UNION {[1..n -> UploadPosts(0) \cup UploadPosts(181)] : n \in 0..MaxStore} :
        \A i, j \in DOMAIN posts : i < j => posts[i].timestamp.t <= posts[j].timestamp.t}

\* the posts of the store that are in folder post_<t>
InFolder(posts, t) == SelectSeq(posts, LAMBDA p : p.timestamp = Stamp(t))

\* line 137: [p for p in data if p.get("timestamp") != timestamp]
WithoutFolder(posts, t) == SelectSeq(posts, LAMBDA p : p.timestamp # Stamp(t))

\* lines 115-154: the post folder is removed with its media, and the store
\* is read, filtered and rewritten through one file handle
DeletePost ==
    /\ pc = "loop"
    /\ pending = <<>>
    /\ \E t \in DeleteInstants :
          /\ InFolder(store, t) # <<>>
          /\ store' = WithoutFolder(store, t)
          /\ disk' = disk \ FilesOf(InFolder(store, t))
          /\ obs' = [ObsOther EXCEPT !.op = "delete", !.deleted = @ \cup {t},
                                     !.store_before = store]
    /\ UNCHANGED <<loopVars, players, voiceVars, loading, recognizerVars, navVars, slides,
                   last_fingerprint, now, refresh_elapsed>>

InitDelete == \E posts \in DeleteStores : Startup(posts, 181, FALSE)

NextDelete ==
    \/ LoadRead
    \/ LoadWriteBack
    \/ DeletePost

SpecDelete == InitDelete /\ [][NextDelete]_vars

(***************************************************************************)
(* Properties of the recognizer and the navigation state machine           *)
(* (checked under SpecGesture).                                            *)
(***************************************************************************)
\* the step taken is a callback: on_gesture runs on the event obs'.ev
IsCallback == pending # <<>> /\ pending' = Tail(pending) /\ obs'.op = "on_gesture"

Releases(evs) == {i \in DOMAIN evs : evs[i].type = "pinch_release"}

\* C1: within one pinch lifecycle (from a pinch_start honored in GESTURE mode
\* to the next pinch_release) on_gesture issues at most one slide change,
\* however many drags cross the threshold and whatever palm events come between.
C1_OneChangePerPinch == obs.active => obs.changes <= 1

\* a drag beyond the threshold that arrives once the lifecycle's slide change
\* has been issued, and issues none
C1_Witness ==
    /\ obs.active /\ obs.changes = 1
    /\ obs.op = "on_gesture" /\ obs.ev.type = "pinch_drag"
    /\ obs.ev.offset > SwipeThreshold
    /\ obs.cmd = "none"

\* C2: a pinch_drag handled while dragging and not locked issues "previous"
\* (index i-1 mod n) when offset > 0.15, "next" (index i+1 mod n) when
\* offset < -0.15, and nothing otherwise; pinch_release never changes the index.
C2_DragCommands ==
    [][IsCallback =>
        LET off == obs'.ev.offset
            n == Len(slides)
            i == current_index
        IN  /\ (obs'.ev.type = "pinch_drag" /\ mode = "gesture"
                    /\ gesture_state.dragging /\ ~gesture_state.locked) =>
                  /\ off > 15 =>
                        /\ obs'.cmd = "previous"
                        /\ current_index' = (IF i = 0 THEN n - 1 ELSE i - 1)
                  /\ off < -15 =>
                        /\ obs'.cmd = "next"
                        /\ current_index' = (IF i = n - 1 THEN 0 ELSE i + 1)
                  /\ (off <= 15 /\ off >= -15) =>
                        /\ obs'.cmd = "none"
                        /\ current_index' = i
            /\ obs'.ev.type = "pinch_release" =>
                  /\ obs'.cmd = "none"
                  /\ current_index' = i
      ]_vars

\* a rightward drag has moved a list of three slides from index 0 to index 2
C2_Witness ==
    /\ obs.op = "on_gesture" /\ obs.ev.type = "pinch_drag"
    /\ obs.cmd = "previous" /\ Len(slides) = 3 /\ current_index = 2

\* C3: after a run_once step that sees no hand, is_pinching is false, and if
\* it was true before the step exactly one pinch_release, with final_offset 0,
\* was emitted in that step.
C3_NeverLatched ==
    obs.step = "nohand" =>
        /\ ~gc.is_pinching
        /\ obs.pre_pinching =>
              /\ Cardinality(Releases(obs.emitted)) = 1
              /\ \A i \in Releases(obs.emitted) : obs.emitted[i].offset = 0

\* the hand vanished in the middle of a pinch
C3_Witness == obs.step = "nohand" /\ obs.pre_pinching /\ obs.op = "run_once"

\* C4: when the hand is lost while a pinch is held in GESTURE mode, the
\* recognizer emits pinch_release (offset 0) before hand_lost, and once both
\* callbacks have run the mode is AUTO with dragging and locked false and
\* drag_offset 0.
C4_HandLostWhilePinching ==
    (obs.step = "nohand" /\ obs.pre_pinching /\ obs.pre_gesture) =>
        /\ \E i, j \in DOMAIN obs.emitted :
              /\ i < j
              /\ obs.emitted[i] = Event("pinch_release", 0)
              /\ obs.emitted[j].type = "hand_lost"
        /\ pending = <<>> =>
              /\ mode = "auto"
              /\ ~gesture_state.dragging
              /\ ~gesture_state.locked
              /\ gesture_state.drag_offset = 0

\* the hand was lost during an honored drag, and both callbacks have run
C4_Witness ==
    /\ obs.step = "nohand" /\ obs.pre_pinching /\ obs.pre_gesture /\ obs.pre_dragging
    /\ pending = <<>> /\ obs.op = "on_gesture"

\* C5: the mode starts as AUTO with index 0; palm_appeared sets GESTURE;
\* palm_disappeared and hand_lost set AUTO, reset the drag state and restart
\* the auto-scroll baseline; nothing else changes the mode.
C5_ModeTransitions ==
    /\ mode = "auto" /\ current_index = 0
    /\ [][/\ (IsCallback /\ obs'.ev.type = "palm_appeared") => mode' = "gesture"
          /\ (IsCallback /\ obs'.ev.type \in {"palm_disappeared", "hand_lost"}) =>
                /\ mode' = "auto"
                /\ ~gesture_state'.dragging
                /\ gesture_state'.drag_offset = 0
                /\ ~gesture_state'.slide_changed
                /\ ~gesture_state'.locked
                /\ auto_elapsed' = 0
          /\ mode' # mode =>
                /\ IsCallback
                /\ obs'.ev.type \in {"palm_appeared", "palm_disappeared", "hand_lost"}
         ]_vars

\* the palm went away during a pinch that had already changed the slide
C5_Witness ==
    /\ obs.op = "on_gesture" /\ obs.ev.type = "palm_disappeared"
    /\ obs.active /\ obs.changes = 1
    /\ mode = "auto" /\ auto_elapsed = 0

(***************************************************************************)
(* Properties of load_posts (checked under SpecLoad).                      *)
(***************************************************************************)
\* the age of a post at the load, for a timestamp that parses
HasAge(p) == p.timestamp.present /\ p.timestamp.ok
Age(p) == now - p.timestamp.t

\* age beyond the expiry threshold: 3 hours if urgent, 24 hours otherwise
PastExpiry(p) ==
    /\ HasAge(p)
    /\ \/ p.status = "urgent" /\ Age(p) > 180
       \/ p.status # "urgent" /\ Age(p) > 1440

\* the media of p cannot be resolved on the disk the load started with
Unresolvable(p) ==
    \/ Strip(p.media_path) = <<>>
    \/ StaticPath(Strip(p.media_path)) \notin obs.disk_before

\* a descriptor of p in the list returned
DescriptorsOf(p) ==
    {i \in DOMAIN obs.returned :
        /\ obs.returned[i].timestamp = p.timestamp
        /\ obs.returned[i].urgent = (p.status = "urgent")
        /\ obs.returned[i].caption = Strip(p.text)}

C7_UnresolvableAndEmptyExcluded ==
    obs.op = "load" =>
        \A i \in DOMAIN obs.store_before :
            LET p == obs.store_before[i]
            IN  (Strip(p.text) = <<>> /\ Unresolvable(p)) => DescriptorsOf(p) = {}

\* the posts that survive a load: not expired, a timestamp that parses, and
\* text or resolvable media
Survives(p) == HasAge(p) /\ ~PastExpiry(p) /\ ~(Strip(p.text) = <<>> /\ Unresolvable(p))

\* C8: load_posts returns one slide descriptor per surviving post, in the
\* original store order, and the store it writes back holds exactly those
\* surviving posts in that order (expired and invalid entries are never
\* written back).
C8_SurvivorsInOrder ==
    obs.op = "load" =>
        /\ store = SelectSeq(obs.store_before, Survives)
        /\ Len(obs.returned) = Len(store)
        /\ \A i \in DOMAIN store : i \in DescriptorsOf(store[i])

\* the posts the code keeps: as Survives, but a post is dropped for lack of
\* content only when its media_path field itself is blank
KeptByCode(p) ==
    HasAge(p) /\ ~PastExpiry(p) /\ ~(Strip(p.text) = <<>> /\ Strip(p.media_path) = <<>>)

\* what does hold of the order: the returned list and the written store are
\* the posts the code keeps, in store order
LoadKeepsOrder ==
    obs.op = "load" =>
        /\ store = SelectSeq(obs.store_before, KeptByCode)
        /\ Len(obs.returned) = Len(store)
        /\ \A i \in DOMAIN store : i \in DescriptorsOf(store[i])

(***************************************************************************)
(* Properties of the slide set (checked under SpecCarousel).               *)
(***************************************************************************)
\* the slide set has just been built: by __init__ or by a rebuilding refresh
JustBuilt == obs.op \in {"startup", "rebuild"}

\* the k-th smallest element of a set of indexes
Nth(S, k) == CHOOSE i \in S : Cardinality({j \in S : j <= i}) = k

\* slide s shows the valid post of descriptor d
Shows(s, d) ==
    /\ s.media = d.media
    /\ s.caption = d.caption
    /\ s.is_video = d.is_video
    /\ s.is_urgent = d.urgent
    /\ s.timestamp = d.timestamp
    /\ s.is_text_only = d.is_text_only

\* a synthetic slide: text only, no media, not urgent, no timestamp
IsPlaceholder(s) ==
    /\ s.is_text_only
    /\ s.media = <<>>
    /\ ~s.is_video
    /\ ~s.is_urgent
    /\ s.timestamp = NoStamp

\* C9: after startup and after every refresh that rebuilds the slides, the
\* slide set is only the urgent posts if any valid post is urgent, otherwise
\* all valid posts, otherwise exactly one synthetic placeholder slide.
C9_SelectionPolicy ==
    JustBuilt =>
        LET valid == obs.returned
            urgentAt == {i \in DOMAIN valid : valid[i].urgent}
        IN  IF urgentAt # {}
            THEN /\ Len(slides) = Cardinality(urgentAt)
                 /\ \A k \in DOMAIN slides : Shows(slides[k], valid[Nth(urgentAt, k)])
            ELSE IF valid # <<>>
            THEN /\ Len(slides) = Len(valid)
                 /\ \A k \in DOMAIN slides : Shows(slides[k], valid[k])
            ELSE /\ Len(slides) = 1
                 /\ IsPlaceholder(slides[1])

\* a refresh has rebuilt the slides from valid posts of both kinds, and the
\* ordinary ones are not shown
C9_Witness ==
    /\ obs.op = "rebuild"
    /\ \E i, j \in DOMAIN obs.returned : obs.returned[i].urgent /\ ~obs.returned[j].urgent
    /\ Len(slides) < Len(obs.returned)
    /\ \A k \in DOMAIN slides : slides[k].is_urgent

\* C10: when the store is empty the slide set is a single placeholder slide
\* with caption "Your ads here", at startup and after a refresh, and
\* current_index stays 0 whatever next / previous / auto-scroll / gesture
\* commands are given.
C10_EmptyStorePlaceholder ==
    /\ (JustBuilt /\ obs.store_before = <<>>) =>
            /\ Len(slides) = 1
            /\ IsPlaceholder(slides[1])
            /\ slides[1].caption = <<"Your ads here">>
    /\ (Len(slides) = 1 /\ IsPlaceholder(slides[1])) => current_index = 0

\* what does hold on an empty store: one placeholder slide, whose caption is
\* "Your ads here" up to a trailing blank, and the index stays 0
EmptyStorePlaceholderUpToBlank ==
    /\ (JustBuilt /\ obs.store_before = <<>>) =>
            /\ Len(slides) = 1
            /\ IsPlaceholder(slides[1])
            /\ Strip(slides[1].caption) = <<"Your ads here">>
    /\ (Len(slides) = 1 /\ IsPlaceholder(slides[1])) => current_index = 0

\* some command has been given while the placeholder was the only slide
PlaceholderNavigated ==
    /\ Len(slides) = 1 /\ IsPlaceholder(slides[1])
    /\ mode = "gesture" /\ gesture_state.locked

\* the step is a call of refresh_posts
IsRefresh == obs'.op \in {"refresh_noop", "rebuild"}

\* the ordered (media, caption, urgent) triples of the posts a load returned
TriplesOf(returned) ==
    [i \in DOMAIN returned |-> <<returned[i].media, returned[i].caption, returned[i].urgent>>]

\* the fingerprint of this call equals the one of the previous call
SameAsPreviousRefresh ==
    ~last_fingerprint.is_none /\ last_fingerprint.triples = TriplesOf(obs'.returned)

NewlyOffered ==
    {slides[k].timestamp.t : k \in {j \in DOMAIN slides :
        /\ slides[j].is_urgent
        /\ slides[j].timestamp.present
        /\ slides[j].timestamp.t \notin DOMAIN obs.voice_before}}

\* C12: register_urgent_ad for an urgent post of age at most 3 hours creates
\* a schedule of between 1 and 3 play times (3 if the post is brand new,
\* fewer when it is registered closer to its 3-hour boundary), and no play
\* time is later than creation + 3 hours.
C12_ScheduleSize ==
    (JustBuilt /\ voice_manager.voice_available) =>
        \A t \in NewlyOffered :
            (now - t <= 180) =>
                /\ t \in DOMAIN voice_manager.voice_states
                /\ LET play_times == voice_manager.voice_states[t].play_times
                   IN  /\ Len(play_times) \in 1..3
                       /\ (now - t = 0) => Len(play_times) = 3
                       /\ (now - t >= 60) => Len(play_times) < 3
                       /\ \A i \in DOMAIN play_times : play_times[i] <= t + 180

\* a rebuild has registered a post an hour or more after its creation, with
\* fewer than 3 play times
C12_Witness ==
    /\ obs.op = "rebuild"
    /\ voice_manager.voice_available
    /\ \E t \in NewlyOffered :
          /\ now - t >= 60 /\ now - t <= 180
          /\ t \in DOMAIN voice_manager.voice_states
          /\ Len(voice_manager.voice_states[t].play_times) = 2

\* C13: the voice plays at most once per scheduled slot: for every tracked
\* timestamp and slot index k, over any number of polls after the slot's
\* target instant, should_play_voice returns true for slot k at most once.
C13_OncePerSlot == ~obs.refired

\* a periodic poll has run after the target instant of a slot that had been
\* played already, and has played nothing
C13_Witness ==
    /\ obs.op = "voice_check"
    /\ obs.fired = <<>>
    /\ \E pair \in obs.played :
          /\ pair[1] \in DOMAIN obs.voice_before
          /\ obs.voice_before[pair[1]].played_count > pair[2]
          /\ \E k \in DOMAIN slides : slides[k].is_urgent /\ slides[k].timestamp.t = pair[1]

\* C14: for an urgent post that is at most 5 minutes old when first
\* observed and stays in the slide set, the voice fires exactly three times:
\* at the first voice check after registration, at the first poll at or
\* after creation + 1h, and at the first poll at or after creation + 2h.
\* Stated on the schedule the first observation creates (its three slots are
\* the registration instant, creation + 1h and creation + 2h) and on the poll
\* that ends __init__ (the first slot has fired).
C14_ThreeFires ==
    (JustBuilt /\ voice_manager.voice_available) =>
        \A t \in NewlyOffered :
            (0 <= now - t /\ now - t <= 5) =>
                /\ t \in DOMAIN voice_manager.voice_states
                /\ voice_manager.voice_states[t].play_times = <<now, t + 60, t + 120>>
                /\ obs.op = "startup" =>
                      /\ voice_manager.voice_states[t].played_count = 1
                      /\ <<t, 0>> \in Range(obs.fired)

\* what does hold: the same for a post less than 5 minutes old
ThreeFiresUnderFiveMinutes ==
    (JustBuilt /\ voice_manager.voice_available) =>
        \A t \in NewlyOffered :
            (0 <= now - t /\ now - t < 5) =>
                /\ t \in DOMAIN voice_manager.voice_states
                /\ voice_manager.voice_states[t].play_times = <<now, t + 60, t + 120>>
                /\ obs.op = "startup" =>
                      /\ voice_manager.voice_states[t].played_count = 1
                      /\ <<t, 0>> \in Range(obs.fired)

\* a post first observed under 5 minutes old has had its three slots played
AllThreePlayed ==
    \E t \in DOMAIN voice_manager.voice_states :
        /\ Len(voice_manager.voice_states[t].play_times) = 3
        /\ voice_manager.voice_states[t].played_count = 3
        /\ {<<t, 0>>, <<t, 1>>, <<t, 2>>} \subseteq obs.played

(***************************************************************************)
(* Properties of the index and of the auto-scroll timer.                   *)
(***************************************************************************)
\* C15: in every reachable state the slide list is non-empty and
\* 0 <= current_index < len(slides), also right after a refresh that shrinks
\* the slide set; advance and retreat wrap modulo the slide count.
C15_IndexInRange ==
    /\ Len(slides) >= 1
    /\ 0 <= current_index /\ current_index < Len(slides)
    /\ obs.op \in {"key_right", "auto_scroll"} =>
          current_index = IF obs.index_before = Len(slides) - 1 THEN 0
                          ELSE obs.index_before + 1
    /\ obs.op = "key_left" =>
          current_index = IF obs.index_before = 0 THEN Len(slides) - 1
                          ELSE obs.index_before - 1

\* a refresh has rebuilt a shorter slide list while the index pointed past
\* the end of the new one
C15_Witness ==
    /\ obs.op = "rebuild"
    /\ Len(slides) < obs.count_before
    /\ obs.index_before >= Len(slides)
    /\ current_index = 0

\* C16: the auto-scroll timer advances the slide only when the mode is AUTO
\* and the active slide is not a video: in GESTURE mode, or while a video
\* slide is active, the expiry of the 10 second interval never changes
\* current_index.
C16_AutoScrollOnlyInAuto ==
    [][/\ obs'.op = "auto_scroll" =>
             /\ mode = "auto"
             /\ ~slides[current_index + 1].is_video
             /\ auto_elapsed > 10000
       /\ (/\ auto_elapsed > 10000
           /\ mode = "gesture" \/ slides[current_index + 1].is_video
           /\ obs'.op \notin {"key_left", "key_right", "on_gesture"})
             => current_index' = current_index
      ]_vars

\* the interval has expired in GESTURE mode on an image slide of a list of
\* several slides
C16_Witness ==
    /\ mode = "gesture"
    /\ auto_elapsed > 10000
    /\ ~slides[current_index + 1].is_video
    /\ Len(slides) > 1

(***************************************************************************)
(* Invariants of the voice schedules (checked under SpecVoice).            *)
(***************************************************************************)
\* C19: for every voice schedule in every reachable state,
\* 0 <= played_count <= len(play_times) and play_times is non-decreasing.
C19_ScheduleWellFormed ==
    \A t \in DOMAIN voice_manager.voice_states :
        LET state == voice_manager.voice_states[t]
        IN  /\ 0 <= state.played_count
            /\ state.played_count <= Len(state.play_times)
            /\ \A i, j \in DOMAIN state.play_times :
                  i <= j => state.play_times[i] <= state.play_times[j]

\* a schedule registered without the immediate slot has been played out
C19_Witness ==
    \E t \in DOMAIN voice_manager.voice_states :
        /\ Len(voice_manager.voice_states[t].play_times) = 2
        /\ voice_manager.voice_states[t].played_count = 2

\* C20: after every periodic voice check no voice schedule remains for a
\* timestamp whose post age exceeds 3 hours, and the schedules of posts aged
\* 3 hours or less are kept.
C20_PurgedPastThreeHours ==
    obs.op = "voice_check" =>
        /\ \A t \in DOMAIN voice_manager.voice_states : now - t <= 180
        /\ \A t \in DOMAIN obs.voice_before :
              now - t <= 180 => t \in DOMAIN voice_manager.voice_states

\* a periodic check has purged a schedule a minute past its 3 hours
C20_Witness ==
    /\ obs.op = "voice_check"
    /\ \E t \in DOMAIN obs.voice_before :
          /\ now - t = 181
          /\ t \notin DOMAIN voice_manager.voice_states

\* a periodic check has kept a schedule at exactly 3 hours
KeptAtThreeHours ==
    /\ obs.op = "voice_check"
    /\ \E t \in DOMAIN voice_manager.voice_states : now - t = 180

(***************************************************************************)
(* Malformed records (checked under SpecLoad).                             *)
(***************************************************************************)
\* a load has been called, whether or not it returned
LoadCalled == obs.op \in {"load", "load_raised"}

\* a record that is well formed and valid: a text, a timestamp that parses,
\* not expired, and text or resolvable media
ValidRecord(p) == p.text # Null /\ Survives(p)

\* C17: a single malformed record in the store (unparseable timestamp,
\* missing or null required field) causes only that record to be dropped:
\* load_posts still completes and returns every other valid post.
C17_OnlyMalformedDropped ==
    LoadCalled =>
        /\ obs.op = "load"
        /\ \A i \in DOMAIN obs.store_before :
              ValidRecord(obs.store_before[i]) => DescriptorsOf(obs.store_before[i]) # {}

\* what does hold: a record whose timestamp is missing or does not parse is
\* dropped alone, and every valid post is returned, when no text is null
BadStampDroppedAlone ==
    obs.op = "load" =>
        \A i \in DOMAIN obs.store_before :
            LET p == obs.store_before[i]
            IN  /\ ValidRecord(p) => DescriptorsOf(p) # {}
                /\ ~HasAge(p) => p \notin Range(store)

\* a load went through a store holding a record with a bad timestamp and a
\* valid post, and returned the valid one
BadStampWithValid ==
    /\ obs.op = "load"
    /\ \E i, j \in DOMAIN obs.store_before :
          /\ obs.store_before[i].timestamp = BadStamp
          /\ ValidRecord(obs.store_before[j])
    /\ obs.returned # <<>>

(***************************************************************************)
(* The unlocked read-modify-write (checked under SpecRace).                *)
(***************************************************************************)
\* how many times post p occurs in a store
Count(posts, p) == Cardinality({i \in DOMAIN posts : posts[i] = p})

\* the posts the upload endpoint appended after the read of the load that
\* has just written back
AppendedSinceRead ==
    {obs.store_before[i] : i \in (Len(obs.read) + 1)..Len(obs.store_before)}

\* C18: the store is not locked during load_posts' read-modify-write: a
\* post appended by the upload endpoint after the read and before the
\* write-back is absent from the store once the write-back completes.  Every
\* such append is lost, and one is reachable (C18_Witness).
C18_LostUpdate ==
    obs.op = "write_back" =>
        \A p \in AppendedSinceRead : Count(store, p) < Count(obs.store_before, p)

\* a post that would have been valid was appended between the read and the
\* write-back, and the written store does not hold it
C18_Witness ==
    /\ obs.op = "write_back"
    /\ \E p \in AppendedSinceRead :
          /\ now - p.timestamp.t = 0
          /\ p \notin Range(store)

(***************************************************************************)
(* Properties of the recognizer's event stream (checked under              *)
(* SpecRecognizer).                                                        *)
(***************************************************************************)
\* the events evs, emitted after a stream in which the last event of the family
\* was (open) or was not its opening one, continue a strict alternation of
\* opening and closing events
RECURSIVE Alternates(_, _, _, _)
Alternates(open, evs, opening, closing) ==
    IF evs = <<>> THEN TRUE
    ELSE IF Head(evs).type \in opening
    THEN ~open /\ Alternates(TRUE, Tail(evs), opening, closing)
    ELSE IF Head(evs).type \in closing
    THEN open /\ Alternates(FALSE, Tail(evs), opening, closing)
    ELSE Alternates(open, Tail(evs), opening, closing)

Emitted(type) == Cardinality({i \in DOMAIN obs.emitted : obs.emitted[i].type = type})

\* C21: palm events are edge-triggered: a step emits palm_appeared exactly
\* once when the palm test changes from false (or no hand) to true and not at
\* all otherwise, and in the event stream palm_appeared and
\* (palm_disappeared or hand_lost) strictly alternate, starting with
\* palm_appeared.
C21_PalmEdgeTriggered ==
    obs.op = "run_once" =>
        /\ Emitted("palm_appeared") =
              (IF ~obs.rec.pre_palm_test /\ obs.rec.palm_test THEN 1 ELSE 0)
        /\ Alternates(obs.rec.pre_palm_open, obs.emitted, PalmOpening, PalmClosing)

\* a tracked hand that showed no open palm opens into one
C21_Witness ==
    /\ obs.op = "run_once"
    /\ obs.rec.pre_tracked
    /\ ~obs.rec.pre_palm_test
    /\ Emitted("palm_appeared") = 1

\* C22: hand_lost is emitted in every step in which the hand disappears after
\* having been tracked in the preceding step, whether or not the tracked hand
\* was an open palm.
C22_HandLostWhenTracked ==
    (obs.op = "run_once" /\ obs.step = "nohand" /\ obs.rec.pre_tracked)
        => Emitted("hand_lost") = 1

\* what the code does: a frame without a hand emits hand_lost exactly when the
\* last processed frame showed an open palm
HandLostOnlyAfterPalm ==
    (obs.op = "run_once" /\ obs.step = "nohand")
        => Emitted("hand_lost") = (IF obs.rec.pre_palm_test THEN 1 ELSE 0)

\* a tracked hand that showed no open palm disappears
TrackedFistLost ==
    /\ obs.op = "run_once"
    /\ obs.step = "nohand"
    /\ obs.rec.pre_tracked
    /\ ~obs.rec.pre_palm_test

\* C23: fast_movement_start and fast_movement_end strictly alternate in the
\* event stream, starting with fast_movement_start, and whenever the hand is
\* lost while is_moving_fast is true, that step emits a fast_movement_end and
\* clears the velocity history.
C23_FastMovementLifecycle ==
    obs.op = "run_once" =>
        /\ Alternates(obs.rec.pre_fast_open, obs.emitted, FastOpening, FastClosing)
        /\ (obs.step = "nohand" /\ obs.rec.pre_moving_fast) =>
              /\ Emitted("fast_movement_end") = 1
              /\ gc.velocity_history = <<>>
              /\ ~gc.is_moving_fast

\* the hand is lost during a fast movement that had been announced
C23_Witness ==
    /\ obs.op = "run_once"
    /\ obs.step = "nohand"
    /\ obs.rec.pre_moving_fast
    /\ obs.rec.pre_fast_open
    /\ obs.rec.pre_tracked

\* the last k samples of the history all exceed the threshold
LastSamplesFast(history, k) ==
    /\ Len(history) >= k
    /\ \A i \in (Len(history) - k + 1)..Len(history) : history[i] > 120

\* C24: a step on a frame with a hand declares fast movement if and only if
\* the current velocity exceeds 1.5 times the threshold (1.2) or the last 2
\* velocity samples both exceed the threshold; a single sample that is not
\* above 1.5 times the threshold, with fewer than 2 samples in the history,
\* never declares fast movement.
C24_FastMovementRule ==
    (obs.op = "run_once" /\ obs.step = "hand") =>
        /\ obs.rec.declared =
              (\/ 2 * obs.rec.velocity > 3 * 120
               \/ LastSamplesFast(gc.velocity_history, 2))
        /\ (Len(gc.velocity_history) < 2 /\ 2 * obs.rec.velocity <= 3 * 120)
              => ~obs.rec.declared
        /\ gc.is_moving_fast = obs.rec.declared

\* two samples in a row between the threshold and 1.5 times it
C24_Witness ==
    /\ obs.op = "run_once"
    /\ obs.step = "hand"
    /\ obs.rec.velocity = 150
    /\ obs.rec.declared
    /\ ~obs.rec.pre_moving_fast

\* the first sample of a hand is 0.0: lines 86-89 return it whenever there is
\* no last position, and lines 303-305 clear position and samples together
FirstSampleAtRest ==
    (obs.op = "run_once" /\ obs.step = "hand" /\ Len(gc.velocity_history) < 2)
        => obs.rec.velocity = 0

\* every pinch_drag among evs comes after a pinch_start that no pinch_release
\* has closed yet
RECURSIVE DragsInside(_, _)
DragsInside(open, evs) ==
    IF evs = <<>> THEN TRUE
    ELSE /\ Head(evs).type = "pinch_drag" => open
         /\ DragsInside(OpenAfter(open, <<Head(evs)>>, PinchOpening, PinchClosing),
                        Tail(evs))

\* C25: the pinch events form well-formed lifecycles: pinch_start and
\* pinch_release strictly alternate, starting with pinch_start, and every
\* pinch_drag comes between a pinch_start and its pinch_release.
C25_PinchLifecycles ==
    obs.op = "run_once" =>
        /\ Alternates(obs.rec.pre_pinch_open, obs.emitted, PinchOpening, PinchClosing)
        /\ DragsInside(obs.rec.pre_pinch_open, obs.emitted)
        /\ obs.rec.pinch_open = gc.is_pinching

\* a drag inside a lifecycle that a pinch_start has opened
C25_Witness ==
    /\ obs.op = "run_once"
    /\ obs.rec.pre_pinch_open
    /\ Emitted("pinch_drag") = 1
    /\ obs.rec.pinch_open

(***************************************************************************)
(* Properties of the drag state (checked under SpecGesture).               *)
(***************************************************************************)
\* C26: once a pinch has triggered its slide change the visual drag offset is
\* 0 until release: in every state locked implies drag_offset = 0, dragging
\* and slide_changed, and locked equals slide_changed.
C26_LockedSnapsOffset ==
    /\ gesture_state.locked =>
          /\ gesture_state.drag_offset = 0
          /\ gesture_state.dragging
          /\ gesture_state.slide_changed
    /\ gesture_state.locked = gesture_state.slide_changed

\* a drag past the threshold arrives after the slide change of the same pinch
C26_Witness ==
    /\ gesture_state.locked
    /\ obs.op = "on_gesture"
    /\ obs.ev.type = "pinch_drag"
    /\ obs.ev.offset > 15
    /\ obs.cmd = "none"

(***************************************************************************)
(* Properties of video playback (checked under SpecVideo and SpecAutoPlay) *)
(***************************************************************************)
\* the player of the slide at index i of the list ps
PlayerAt(ps, i) == ps[i + 1]

\* a video slide whose file opens and yields frames
Playable(s) == s.is_video /\ s.media # BrokenVideo /\ s.media # UndecodableVideo

SingleVideoRestarted ==
    /\ obs.op = "video_finished"
    /\ Len(slides) = 1
    /\ PlayerAt(players, 0).playing
    /\ ~PlayerAt(players, 0).finished

\* C28: with at least two slides, AUTO mode and no gesture input, the
\* carousel eventually leaves every slide, a video slide whose media cannot be
\* opened or decoded included.
C28_LeavesEverySlide ==
    \A i \in 0..(MaxSlides - 1) :
        [](Len(slides) >= 2 /\ mode = "auto" /\ current_index = i
              => <>(current_index # i))

\* what the code does: every slide is left except a video whose file exists
\* and does not open
LeavesEverySlideThatOpens ==
    \A i \in 0..(MaxSlides - 1) :
        []((/\ Len(slides) >= 2
            /\ mode = "auto"
            /\ current_index = i
            /\ slides[current_index + 1].media # BrokenVideo)
              => <>(current_index # i))

\* the carousel stays on a video that did not open: nothing plays, nothing
\* has finished, and the auto-scroll timer, long expired, is not consulted
StuckOnBrokenVideo ==
    /\ Len(slides) >= 2
    /\ mode = "auto"
    /\ slides[current_index + 1].media = BrokenVideo
    /\ ~PlayerAt(players, current_index).playing
    /\ ~PlayerAt(players, current_index).finished
    /\ auto_elapsed > 10000

(***************************************************************************)
(* Properties of the voice schedules across loads (checked under           *)
(* SpecVoice).                                                             *)
(***************************************************************************)
\* the timestamps of the urgent posts of age at most 3 hours that the last
\* load returned
UrgentReturned ==
    {obs.returned[i].timestamp.t : i \in {j \in DOMAIN obs.returned :
        /\ obs.returned[j].urgent
        /\ obs.returned[j].timestamp.present
        /\ obs.returned[j].timestamp.ok
        /\ now - obs.returned[j].timestamp.t <= 180}}

\* C29: every valid urgent post of age at most 3 hours that a load returns
\* has a voice schedule keyed by its timestamp once that load's caller is
\* done (when the voice file is available), a new urgent post whose
\* (media, caption, urgent) triple equals that of the post it replaces
\* included.
C29_UrgentPostsScheduled ==
    (obs.op \in {"startup", "refresh_noop", "rebuild"} /\ voice_manager.voice_available)
        => UrgentReturned \subseteq DOMAIN voice_manager.voice_states

\* what the code does: the posts are scheduled by __init__ and by a refresh
\* that rebuilds the slides
ScheduledWhenBuilt ==
    (JustBuilt /\ voice_manager.voice_available)
        => UrgentReturned \subseteq DOMAIN voice_manager.voice_states

\* a refresh has found the fingerprint unchanged although the urgent post it
\* returned is a new one, which has no schedule
UnscheduledReplacement ==
    /\ obs.op = "refresh_noop"
    /\ voice_manager.voice_available
    /\ \E t \in UrgentReturned :
          /\ t \notin DOMAIN voice_manager.voice_states
          /\ \A k \in DOMAIN slides : slides[k].timestamp.t # t

\* the next unplayed slot of the schedule s has its target instant in the past
SlotDue(s) ==
    /\ s.played_count < Len(s.play_times)
    /\ s.play_times[s.played_count + 1] <= now

\* the timestamps of the urgent slides that were tracked when the last poll
\* began
PolledTracked ==
    {slides[k].timestamp.t : k \in {j \in DOMAIN slides :
        /\ slides[j].is_urgent
        /\ slides[j].timestamp.present
        /\ slides[j].timestamp.t \in DOMAIN obs.voice_before}}

\* C30: for every tracked urgent post, a scheduled slot whose target instant
\* has passed and that has not been played is played at the next voice poll,
\* so played_count never stalls below len(play_times) while the remaining
\* target instants are in the past, a schedule created with both the +1h and
\* the +2h instants already passed included.
C30_DueSlotPlayedAtNextPoll ==
    (obs.op = "voice_check" /\ voice_manager.voice_available) =>
        \A t \in PolledTracked :
            SlotDue(obs.voice_before[t])
                => <<t, obs.voice_before[t].played_count>> \in Range(obs.fired)

\* what the code does: a due slot is played by a poll exactly when no earlier
\* slot was played at or after this slot's target instant
DueSlotPlayedUnlessCheckedLate ==
    (obs.op = "voice_check" /\ voice_manager.voice_available) =>
        \A t \in PolledTracked :
            LET s == obs.voice_before[t]
            IN  SlotDue(s) =>
                   (<<t, s.played_count>> \in Range(obs.fired))
                       = (\/ s.last_check = None
                          \/ s.last_check[1] < s.play_times[s.played_count + 1])

\* the schedule of t has a due slot that no poll will play
Stalled(vm, t, t_now) ==
    /\ t \in DOMAIN vm.voice_states
    /\ LET s == vm.voice_states[t]
       IN  /\ s.played_count < Len(s.play_times)
           /\ s.play_times[s.played_count + 1] <= t_now
           /\ s.last_check # None
           /\ s.last_check[1] >= s.play_times[s.played_count + 1]

\* a stalled schedule stays stalled until it is purged
StalledForGood ==
    [][\A t \in DOMAIN voice_manager.voice_states :
          Stalled(voice_manager, t, now) =>
             \/ Stalled(voice_manager', t, now')
             \/ t \notin DOMAIN voice_manager'.voice_states]_vars

\* a post registered two hours after its creation: its +1h slot was played at
\* registration and a later poll has passed over its +2h slot
StalledAfterLateRegistration ==
    /\ obs.op = "voice_check"
    /\ \E t \in PolledTracked :
          /\ obs.voice_before[t].play_times = <<t + 60, t + 120>>
          /\ obs.voice_before[t].played_count = 1
          /\ obs.fired = <<>>
          /\ Stalled(voice_manager, t, now)

(***************************************************************************)
(* Properties of the main loop over an unchanged store (checked under      *)
(* SpecLoop).                                                              *)
(***************************************************************************)
\* the step taken is the first refresh_posts that reads the store since
\* __init__: no fingerprint has been recorded yet
FirstRefresh == IsRefresh /\ last_fingerprint.is_none

\* C31: the first refresh after startup, over a store whose content is what
\* the startup load left, changes nothing: current_index, the slides and the
\* state of every video player are as before.
C31_FirstRefreshNoOp ==
    [][FirstRefresh =>
          /\ current_index' = current_index
          /\ slides' = slides
          /\ players' = players]_vars

\* what the code does on that refresh: it rebuilds the slide set from the
\* posts the load returns and shows the first slide
FirstRefreshRebuilds ==
    [][FirstRefresh =>
          /\ current_index' = 0
          /\ slides' = BuildSlides(SelectSlides(obs'.returned, RefreshPlaceholder))
          /\ players' = StartCurrentSlide(NewPlayers(slides'), slides', 0)
          /\ obs'.op = "rebuild"]_vars

\* the first refresh has taken the carousel from its second slide back to
\* the first, over the store the startup left
FirstRefreshResetIndex ==
    /\ obs.op = "rebuild"
    /\ obs.index_before = 1
    /\ current_index = 0
    /\ obs.store_before = store
    /\ Len(slides) = 2

\* the step taken is a refresh whose load could not read or parse the store
UnreadableRefresh == obs'.op = "refresh_unreadable"

\* C32: when the store cannot be read or parsed, load_posts writes nothing
\* and the refresh is skipped: the slide set and current_index stay as they
\* were.
C32_UnreadableStoreSkipsRefresh ==
    [][UnreadableRefresh =>
          /\ store' = store
          /\ disk' = disk
          /\ slides' = slides
          /\ current_index' = current_index]_vars

\* what the code does: the store and the media files are left alone, and the
\* empty list load_posts returns is treated as the new content, so the slide
\* set is kept only when the last load was empty as well
UnreadableStoreReadAsEmpty ==
    [][UnreadableRefresh =>
          /\ store' = store
          /\ disk' = disk
          /\ last_fingerprint' = Fingerprint(<<>>)
          /\ IF last_fingerprint = Fingerprint(<<>>)
             THEN slides' = slides /\ current_index' = current_index
             ELSE /\ slides' = BuildSlides(<<RefreshPlaceholder>>)
                  /\ current_index' = 0]_vars

\* two slides of posts that are still in the store have been replaced by the
\* placeholder, by a refresh that could not read the store
PostsReplacedByPlaceholder ==
    /\ obs.op = "refresh_unreadable"
    /\ obs.count_before = 2
    /\ Len(store) = 2
    /\ slides = BuildSlides(<<RefreshPlaceholder>>)

(***************************************************************************)
(* Shutdown (checked under SpecLoopExit).                                  *)
(***************************************************************************)
\* every video player of the slide set is stopped and its capture released
AllReleased ==
    \A i \in DOMAIN players :
        players[i].present => players[i].released /\ ~players[i].playing

\* C33: once running is cleared the loop exits at the next loop-top check (no
\* further iteration starts, and the exit is reached), the loop is left only
\* with the flag cleared, and at the exit the music channel is stopped and
\* the player of every slide of the current slide set is released.
C33_ShutdownReleases ==
    /\ [](pc = "exited" => ~running /\ ~music_busy /\ AllReleased)
    /\ [][pc' = "exited" /\ pc = "loop" => ~running]_vars
    /\ [][~running /\ pc = "loop" =>
             /\ refresh_elapsed' <= refresh_elapsed
             /\ voice_elapsed' <= voice_elapsed
             /\ auto_elapsed' <= auto_elapsed]_vars
    /\ (~running ~> pc = "exited")

\* the loop has been left while the voice was playing, over two slides of
\* which the one that is not current holds a video player
C33_Witness ==
    /\ pc = "exited"
    /\ obs.op = "exit"
    /\ obs.music_before
    /\ Len(slides) = 2
    /\ \E i \in DOMAIN players : players[i].present /\ i # current_index + 1
    /\ AllReleased

(***************************************************************************)
(* The drag state and the other operations of the loop (SpecLoop).         *)
(***************************************************************************)
\* the operations of the main loop that are not gesture callbacks
NonGestureOps ==
    {"auto_scroll", "video_finished", "key_left", "key_right",
     "refresh_noop", "rebuild", "refresh_unreadable", "voice_check"}

\* C34: gesture_state (dragging, drag_offset, slide_changed, locked) changes
\* only in a call of on_gesture: an auto-scroll advance, a video-completion
\* advance, a key, a refresh and a voice poll leave it as it was.
C34_OnlyGesturesChangeDragState ==
    [][/\ (gesture_state' # gesture_state => GestureCallback)
       /\ (obs'.op \in NonGestureOps => gesture_state' = gesture_state)]_vars

\* a refresh has rebuilt the slide set in the middle of a pinch that had
\* changed the slide, and the lock is still set
C34_Witness ==
    /\ obs.op = "rebuild"
    /\ mode = "gesture"
    /\ gesture_state.dragging
    /\ gesture_state.locked
    /\ gesture_state.slide_changed

(***************************************************************************)
(* The mode, the lock and the recognizer's flags (SpecGesture).            *)
(***************************************************************************)
\* run_once has returned: every event it emitted has had its callback
StepEnded == pending = <<>>

\* C35: at the end of every recognizer step, with the callback wired to
\* on_gesture, the mode is GESTURE exactly when the recognizer's
\* palm_detected flag is set.
C35_ModeFollowsPalm ==
    StepEnded => (mode = "gesture" <=> gc.palm_detected)

\* a step has ended in GESTURE mode on a palm that is also pinching, after a
\* callback; and the flag and the edge memory of the recognizer agree
C35_Witness ==
    /\ StepEnded
    /\ obs.op = "on_gesture"
    /\ mode = "gesture"
    /\ gc.palm_detected
    /\ gc.last_palm_state
    /\ gc.is_pinching

\* the four fields of gesture_state
DragFields(gs) == <<gs.dragging, gs.drag_offset, gs.slide_changed, gs.locked>>

PinchTypes == {"pinch_start", "pinch_drag", "pinch_release"}

\* lines 1225-1233: the offset the renderer is given (draw() is offset 0);
\* abs(drag_offset) > 0.01 is more than one hundredth
RenderedOffset ==
    IF /\ gesture_state.exists
       /\ gesture_state.dragging
       /\ (gesture_state.drag_offset > 1 \/ gesture_state.drag_offset < -1)
    THEN gesture_state.drag_offset ELSE 0

\* C36: in every reachable state with mode AUTO the drag state is idle
\* (dragging false, locked false, drag_offset 0) and the renderer is given
\* offset 0; a pinch event received in AUTO mode changes neither
\* current_index nor the gesture state.
C36_AutoModeIdle ==
    /\ [](mode = "auto" =>
             /\ ~gesture_state.dragging
             /\ ~gesture_state.locked
             /\ gesture_state.drag_offset = 0
             /\ RenderedOffset = 0)
    /\ [][(IsCallback /\ mode = "auto" /\ obs'.ev.type \in PinchTypes) =>
             /\ current_index' = current_index
             /\ DragFields(gesture_state') = DragFields(gesture_state)
             /\ mode' = "auto"]_vars

\* a drag beyond the threshold has reached on_gesture in AUTO mode from a
\* pinching hand that shows no palm, and was ignored
C36_Witness ==
    /\ obs.op = "on_gesture"
    /\ obs.ev.type = "pinch_drag"
    /\ obs.ev.offset > SwipeThreshold
    /\ gc.is_pinching
    /\ mode = "auto"
    /\ obs.cmd = "none"
    /\ DragFields(gesture_state) = DragFields(IdleGestureState)

\* the step taken is the callback of a pinch_start received in GESTURE mode
PinchStartInGesture ==
    IsCallback /\ obs'.ev.type = "pinch_start" /\ mode = "gesture"

\* C37: whenever a pinch_start reaches on_gesture in GESTURE mode, locked is
\* false, so the pinch is honored: dragging becomes true, with offset 0 and
\* no slide change recorded.
C37_NewPinchHonored ==
    [][PinchStartInGesture =>
          /\ ~gesture_state.locked
          /\ gesture_state'.dragging
          /\ ~gesture_state'.locked
          /\ ~gesture_state'.slide_changed
          /\ gesture_state'.drag_offset = 0]_vars

\* a lock is held only while the recognizer is in a pinch, so every lock is
\* cleared by the release that ends its pinch, or by the palm going away
LockOnlyWhilePinching ==
    (StepEnded /\ gesture_state.locked) => (gc.is_pinching /\ mode = "gesture")

\* a pinch_start has been honored in GESTURE mode, on a slide other than the
\* one the carousel started on
C37_Witness ==
    /\ obs.op = "on_gesture"
    /\ obs.ev.type = "pinch_start"
    /\ mode = "gesture"
    /\ gesture_state.dragging
    /\ ~gesture_state.locked
    /\ current_index # 0

(***************************************************************************)
(* The number of plays of one timestamp (SpecVoice).                       *)
(***************************************************************************)
\* the slots of timestamp t that have been played
SlotsPlayed(t) == {pair \in obs.played : pair[1] = t}

\* the timestamps tracked before and after the step
Tracked == DOMAIN voice_manager.voice_states
TrackedNext == DOMAIN voice_manager'.voice_states

\* C38: with a clock that never goes back, the voice is played at most 3
\* times for any one urgent timestamp: no slot is played twice and at most
\* three slots are; a refresh that rebuilds the slides leaves the schedule
\* of a tracked timestamp as it is; and a schedule is created only within
\* 3 hours of the timestamp and purged only past them, so a purged one is
\* never created again.
C38_AtMostThreePlays ==
    /\ [](/\ ~obs.refired
          /\ \A t \in VoiceInstants : Cardinality(SlotsPlayed(t)) <= 3)
    /\ [][now' >= now]_vars
    /\ [][obs'.op = "rebuild" =>
             \A t \in Tracked :
                 /\ t \in TrackedNext
                 /\ voice_manager'.voice_states[t] = voice_manager.voice_states[t]]_vars
    /\ [][\A t \in VoiceInstants :
             /\ (t \in TrackedNext \ Tracked) => now' - t <= VoiceWindow
             /\ (t \in Tracked \ TrackedNext) => now' - t > VoiceWindow]_vars

\* the slide set has been rebuilt, on a store that still holds an urgent post
\* whose three slots have been played, and its schedule is as the refresh
\* found it: played_count 3
C38_Witness ==
    /\ obs.op = "rebuild"
    /\ \E t \in Tracked :
          /\ Cardinality(SlotsPlayed(t)) = 3
          /\ voice_manager.voice_states[t].played_count = 3
          /\ t \in DOMAIN obs.voice_before
          /\ \E k \in DOMAIN slides : slides[k].is_urgent /\ slides[k].timestamp.t = t

\* the schedule of a timestamp whose three slots were played has been purged,
\* and a later refresh has rebuilt the slide set without creating it again
PurgedNotRecreated ==
    /\ obs.op = "rebuild"
    /\ \E t \in VoiceInstants :
          /\ Cardinality(SlotsPlayed(t)) = 3
          /\ t \notin DOMAIN obs.voice_before
          /\ t \notin Tracked

(***************************************************************************)
(* The delete endpoint and load_posts (SpecDelete).                        *)
(***************************************************************************)
\* the timestamps of the posts in a store
StampsIn(posts) == {posts[i].timestamp.t : i \in DOMAIN posts}

\* C39: a post removed through the delete endpoint never reappears in the
\* store, under any interleaving of delete_post with the read and the
\* write-back of load_posts.
C39_DeletedStaysDeleted ==
    StampsIn(store) \cap obs.deleted = {}

\* what does hold: a deleted post comes back only by the write-back of a
\* load that had read the store before the deletion
DeletedReturnsOnlyByStaleWriteBack ==
    [][(StampsIn(store') \cap obs'.deleted # {}) =>
          \/ StampsIn(store) \cap obs.deleted # {}
          \/ /\ obs'.op = "write_back"
             /\ loading # None
             /\ StampsIn(loading[1].read) \cap obs.deleted # {}]_vars

\* a write-back has put a deleted post back into the store, its media gone
DeletedPostRestored ==
    /\ obs.op = "write_back"
    /\ \E i \in DOMAIN store :
          /\ store[i].timestamp.t \in obs.deleted
          /\ store[i].media_path # <<>>
          /\ StaticPath(store[i].media_path) \notin disk

(***************************************************************************)
(* load_posts applied twice (SpecLoad: nothing else writes the store or    *)
(* the media files, and the clock stands still).                           *)
(***************************************************************************)
\* the step taken is a load that follows a load that returned
SecondLoad == obs.op = "load" /\ obs'.op \in {"load", "load_raised"}

\* C40: with no concurrent writer and the same clock, load_posts is
\* idempotent: the load that follows a load returns the same descriptor list
\* and leaves the store exactly as the first load wrote it.
C40_LoadIdempotent ==
    [][SecondLoad =>
          /\ obs'.op = "load"
          /\ obs'.returned = obs.returned
          /\ store' = store]_vars

\* what does hold: the store is written back as it was, and the descriptors
\* are the same when the first load found every media file it resolved still
\* in place at its end
StoreFixedAfterFirstLoad ==
    [][SecondLoad =>
          /\ obs'.op = "load"
          /\ store' = store
          /\ disk' = disk
          /\ Len(obs'.returned) = Len(obs.returned)
          /\ ((\A i \in DOMAIN obs.returned :
                   obs.returned[i].media # <<>> => obs.returned[i].media \in disk)
                => obs'.returned = obs.returned)]_vars

\* a load has returned a post with its image and has then removed that image
\* together with an expired post that shares it
SharedMediaRemoved ==
    /\ obs.op = "load"
    /\ \E i \in DOMAIN obs.returned :
          /\ obs.returned[i].media # <<>>
          /\ obs.returned[i].media \in obs.disk_before
          /\ obs.returned[i].media \notin disk

====
